---------------------------- MODULE Spec2Model ----------------------------
(***************************************************************************)
(* The agent-cli bridge: NdjsonTransport and AgentServer (transport.ts),   *)
(* AgentSession (session.ts) and the terminal driver (cli.ts), as one      *)
(* state machine.                                                          *)
(*                                                                         *)
(* The process is single-threaded: a handler runs to its first await       *)
(* without interleaving.  One action is one such run.  Continuations left  *)
(* behind an await are kept in microq and run before the next I/O event;   *)
(* the lines of one data chunk are handled back to back (chunk).           *)
(***************************************************************************)
EXTENDS Integers, Sequences, FiniteSets, TLC

\* ------------------------------------------------------------ bounds

\* The storage of the model: how many objects a behaviour may construct.
NInst == 3          \* AgentSession objects
NQuery == 3         \* engine invocations
NReq == 2           \* request ids a front-end may name

\* ------------------------------------------------------------ values

CLI_SESSION_ID == "cli"

SessionIds == {CLI_SESSION_ID, "s1", "s2"}
Conns == {"c1", "c2"}
Tty == "tty"
CliSink == "cli"
Sinks == Conns \cup {Tty}

NoInst == 0
NoQuery == 0
NoConn == "none"
NoId == "-"

Insts == 1..NInst
Queries == 1..NQuery

\* A tool payload: a structured value with an `answers` key that may be absent.
Absent == "-"
NoPayload == [q |-> Absent, answers |-> Absent]
OrigInput == [q |-> "q0", answers |-> Absent]
UpdInput == [q |-> "q1", answers |-> Absent]
EngineIds == {"e1"}      \* conversation ids the engine reports in `system`
ResumeIds == {"e0"}      \* conversation ids a resume_session names

\* One outward event, or (type "resolve") one call of a PendingRequest's
\* resolve; `src` is the AgentSession object that made it (NoInst: the server).
Effect(sid, type, status, rid, text, payload, src) ==
    [sessionId |-> sid, type |-> type, status |-> status, requestId |-> rid,
     text |-> text, payload |-> payload, src |-> src]

StatusEv(sid, st, src) == Effect(sid, "session_status", st, 0, "", NoPayload, src)
ErrorEv(sid, txt, src) == Effect(sid, "error", "", 0, txt, NoPayload, src)
PlainEv(sid, type, src) == Effect(sid, type, "", 0, "", NoPayload, src)
ResolveEff(sid, rid, behavior, txt, payload, src) ==
    Effect(sid, "resolve", behavior, rid, txt, payload, src)

IsEvent(e) == e.type # "resolve"

\* new Map(): request id -> PendingRequest.toolInput (the resolve closure of
\* the entry is the engine's promise for that id, query[q].awaiting).
EmptyMap == [r \in {} |-> NoPayload]

NewSession(sid, sink) ==
    [created |-> TRUE, sessionId |-> sid, sink |-> sink,
     activeQuery |-> NoQuery, claudeSessionId |-> NoId,
     pendingRequests |-> EmptyMap, requestCounter |-> 0]

NoSession ==
    [created |-> FALSE, sessionId |-> NoId, sink |-> NoConn,
     activeQuery |-> NoQuery, claudeSessionId |-> NoId,
     pendingRequests |-> EmptyMap, requestCounter |-> 0]

NoQueryRec ==
    [owner |-> NoInst, st |-> "none", resume |-> NoId, system |-> FALSE,
     msgs |-> 0, interrupted |-> FALSE, awaiting |-> {}]

VARIABLES
    mode,        \* "server" (--server) or "cli"
    server,      \* the net.Server: "listening", "stopping" (stop() awaits),
                 \* "closing" (close() waits for its connections), "closed"
    sessions,    \* AgentServer.sessions: session id -> AgentSession object
    transports,  \* AgentServer.transports
    sock,        \* each socket: "fresh", "open", "ended" (we called end()), "destroyed"
    wire,        \* what was written to each socket, and to the terminal
    inst,        \* the AgentSession objects
    nInst,       \* how many were constructed
    query,       \* the engine invocations
    nQuery,      \* how many were made
    trace,       \* per AgentSession: its sendToClient and resolve calls, in order
    prompts,     \* terminal prompts whose readline callback has not fired
    cli,         \* the terminal driver (runCli, followUpLoop)
    microq,      \* continuations queued behind an await
    chunk,       \* the connection whose onData loop is running
    framer,      \* per socket: the bytes it delivered, NdjsonTransport.buffer,
                 \* and what the transport emitted, in order
    peer         \* a transport pair: what one end was given to send, the bytes
                 \* in flight, and the NdjsonTransport reading the other end

vars == <<mode, server, sessions, transports, sock, wire, inst, nInst, query,
          nQuery, trace, prompts, cli, microq, chunk, framer, peer>>

\* The part of the state the session and server methods read and write.
Heap ==
    [sessions |-> sessions, transports |-> transports, sock |-> sock,
     wire |-> wire, inst |-> inst, nInst |-> nInst, query |-> query,
     nQuery |-> nQuery, trace |-> trace,
     prompts |-> prompts]

SetHeap(h) ==
    /\ sessions' = h.sessions
    /\ transports' = h.transports
    /\ sock' = h.sock
    /\ wire' = h.wire
    /\ inst' = h.inst
    /\ nInst' = h.nInst
    /\ query' = h.query
    /\ nQuery' = h.nQuery
    /\ trace' = h.trace
    /\ prompts' = h.prompts

\* ------------------------------------------------------------ NdjsonTransport

\* The bytes a socket can deliver: the digit 1, an opening brace, a space, a
\* line feed, and the two bytes C2 A0 that encode U+00A0 (no-break space).
Bytes == {"1", "{", " ", "\n", "C2", "A0"}

\* chunk.toString("utf8"): C2 A0 is U+00A0; a C2 with no continuation byte
\* after it in this buffer, and an A0 with no lead byte before it, are each
\* replaced by U+FFFD.
RECURSIVE ToStringUtf8(_)
ToStringUtf8(b) ==
    IF b = <<>> THEN <<>>
    ELSE IF b[1] = "C2" /\ Len(b) >= 2 /\ b[2] = "A0"
         THEN <<"nbsp">> \o ToStringUtf8(SubSeq(b, 3, Len(b)))
    ELSE IF b[1] \in {"C2", "A0"}
         THEN <<"fffd">> \o ToStringUtf8(Tail(b))
    ELSE <<b[1]>> \o ToStringUtf8(Tail(b))

\* what String.prototype.trim removes
WhiteSpace == {" ", "nbsp", "\n"}

RECURSIVE TrimStart(_)
TrimStart(str) ==
    IF str # <<>> /\ str[1] \in WhiteSpace THEN TrimStart(Tail(str)) ELSE str

RECURSIVE TrimEnd(_)
TrimEnd(str) ==
    IF str # <<>> /\ str[Len(str)] \in WhiteSpace
    THEN TrimEnd(SubSeq(str, 1, Len(str) - 1))
    ELSE str

Trim(str) == TrimEnd(TrimStart(str))

\* the number a run of digits denotes
RECURSIVE NumberOf(_)
NumberOf(str) ==
    IF str = <<>> THEN 0
    ELSE 10 * NumberOf(SubSeq(str, 1, Len(str) - 1)) + 1

\* The kinds of record of the protocol: InboundMessage and OutboundMessage.
InboundKinds ==
    {"start_session", "send_prompt", "resume_session", "permission_response",
     "question_response", "interrupt", "close_session"}
OutboundKinds ==
    {"assistant_text", "tool_use", "tool_result", "permission_request",
     "question", "system", "result", "stream_delta", "error", "session_status"}
Kinds == InboundKinds \cup OutboundKinds

\* The characters of a string field: a letter, a line feed, a double quote,
\* a backslash and U+00A0.
TextChars == {"a", "\n", "\"", "\\", "nbsp"}

\* A record of the protocol: its kind, which fixes its keys and its scalar
\* fields, and the text its content field holds (prompt, text, error,
\* stream_delta.delta, tool_result.output, a value inside toolInput).
Record(kind, text) == [kind |-> kind, text |-> text]

\* JSON.stringify of a string's content: line feed, quote and backslash are
\* escaped, everything else is written as it is.
RECURSIVE Quote(_)
Quote(text) ==
    IF text = <<>> THEN <<>>
    ELSE (CASE text[1] = "\n" -> <<"\\", "n">>
            [] text[1] = "\"" -> <<"\\", "\"">>
            [] text[1] = "\\" -> <<"\\", "\\">>
            [] OTHER -> <<text[1]>>) \o Quote(Tail(text))

\* JSON.stringify(msg).  The kind stands for the opening of the object up to
\* the content field's opening quote, all of it ASCII.
Stringify(msg) == <<"{", msg.kind, "\"">> \o Quote(msg.text) \o <<"\"", "}">>

\* the UTF-8 bytes socket.write gives a string
RECURSIVE Utf8Bytes(_)
Utf8Bytes(str) ==
    IF str = <<>> THEN <<>>
    ELSE (IF str[1] = "nbsp" THEN <<"C2", "A0">> ELSE <<str[1]>>)
         \o Utf8Bytes(Tail(str))

\* JSON.parse of the inside of a string literal: an escape is undone, a quote
\* or a line feed that is not escaped is a syntax error.
RECURSIVE Unquote(_)
Unquote(str) ==
    IF str = <<>> THEN [ok |-> TRUE, text |-> <<>>]
    ELSE IF str[1] = "\\"
         THEN IF Len(str) >= 2 /\ str[2] \in {"n", "\"", "\\"}
              THEN LET rest == Unquote(SubSeq(str, 3, Len(str)))
                   IN  [ok |-> rest.ok,
                        text |-> <<IF str[2] = "n" THEN "\n" ELSE str[2]>> \o rest.text]
              ELSE [ok |-> FALSE, text |-> <<>>]
    ELSE IF str[1] \in {"\"", "\n"} THEN [ok |-> FALSE, text |-> <<>>]
    ELSE LET rest == Unquote(Tail(str))
         IN  [ok |-> rest.ok, text |-> <<str[1]>> \o rest.text]

\* whether the text is an object as JSON.stringify writes a record
IsObjectText(str) ==
    /\ Len(str) >= 5
    /\ str[1] = "{"
    /\ str[2] \in Kinds
    /\ str[3] = "\""
    /\ str[Len(str) - 1] = "\""
    /\ str[Len(str)] = "}"
    /\ Unquote(SubSeq(str, 4, Len(str) - 2)).ok

\* JSON.parse of a trimmed line over these characters: a run of digits is a
\* number, an object is the record it spells; a brace that is never closed,
\* a space between tokens with nothing to separate, U+00A0 and U+FFFD outside
\* a string are syntax errors.
JsonParse(str) ==
    IF str # <<>> /\ \A k \in 1..Len(str) : str[k] = "1"
    THEN [ok |-> TRUE, value |-> NumberOf(str)]
    ELSE IF IsObjectText(str)
    THEN [ok |-> TRUE,
          value |-> Record(str[2], Unquote(SubSeq(str, 4, Len(str) - 2)).text)]
    ELSE [ok |-> FALSE, value |-> 0]

MessageEvent(value) == [ev |-> "message", value |-> value]
ErrorEvent == [ev |-> "error", value |-> 0]

\* buffer.indexOf("\n"), counted from 1; 0 when there is none
IndexOfNewline(str) ==
    IF \E k \in 1..Len(str) : str[k] = "\n"
    THEN CHOOSE k \in 1..Len(str) :
            str[k] = "\n" /\ \A j \in 1..(k - 1) : str[j] # "\n"
    ELSE 0

\* the while loop of NdjsonTransport.onData
RECURSIVE OnDataLoop(_, _)
OnDataLoop(buffer, out) ==
    LET newlineIndex == IndexOfNewline(buffer)
        line == Trim(SubSeq(buffer, 1, newlineIndex - 1))
        rest == SubSeq(buffer, newlineIndex + 1, Len(buffer))
    IN  IF newlineIndex = 0 THEN [buffer |-> buffer, out |-> out]
        ELSE IF Len(line) > 0
             THEN IF JsonParse(line).ok
                  THEN OnDataLoop(rest, Append(out, MessageEvent(JsonParse(line).value)))
                  ELSE OnDataLoop(rest, Append(out, ErrorEvent))
        ELSE OnDataLoop(rest, out)

\* a transport just constructed; `fed` is every byte its socket delivered
NewFramer == [fed |-> <<>>, buffer |-> <<>>, out |-> <<>>]

\* NdjsonTransport.onData up to the listeners it calls
OnData(f, bytes) ==
    LET r == OnDataLoop(f.buffer \o ToStringUtf8(bytes), <<>>)
    IN  [fed |-> f.fed \o bytes, buffer |-> r.buffer, out |-> f.out \o r.out]

\* the bytes NdjsonTransport.send writes for msg
LineOf(msg) == Utf8Bytes(Stringify(msg) \o <<"\n">>)

\* A transport pair with nothing sent.
NewPeer == [sent |-> <<>>, bytes |-> <<>>, f |-> NewFramer]

\* socket.write: a socket we have ended, or one not connected, takes no data.
SocketWrite(h, c, msg) ==
    IF h.sock[c] = "open" THEN [h EXCEPT !.wire[c] = Append(@, msg)] ELSE h

\* Fault: a send that puts the record in front of what was written.
SendNewestFirst(h, c, msg) ==
    IF h.sock[c] = "open" THEN [h EXCEPT !.wire[c] = <<msg>> \o @] ELSE h

\* NdjsonTransport.send
Send(h, c, msg) ==
    IF h.sock[c] # "destroyed" THEN SocketWrite(h, c, msg) ELSE h

\* Fault: a broadcast that stops after the first transport.
BroadcastOne(h, msg) ==
    IF h.transports = {} THEN h
    ELSE LET c == CHOOSE d \in h.transports : TRUE
         IN  [h EXCEPT !.wire[c] = Send(h, c, msg).wire[c]]

\* AgentServer.broadcast
Broadcast(h, msg) ==
    [h EXCEPT !.wire = [c \in Sinks |->
        IF c \in h.transports THEN Send(h, c, msg).wire[c] ELSE h.wire[c]]]

\* ------------------------------------------------------------ AgentSession

MapDelete(m, k) == [r \in DOMAIN m \ {k} |-> m[r]]
MapSet(m, k, v) == [r \in DOMAIN m \cup {k} |-> IF r = k THEN v ELSE m[r]]

Min(S) == CHOOSE x \in S : \A y \in S : x <= y

\* Fault: a resolve that releases the request of that name in every session.
ResolveEverywhere(h, i, rid, behavior, txt, payload) ==
    [h EXCEPT
        !.trace[i] = Append(@, ResolveEff(h.inst[i].sessionId, rid, behavior,
                                          txt, payload, i)),
        !.query = [q \in Queries |-> [h.query[q] EXCEPT !.awaiting = @ \ {rid}]]]

\* Fault: a resolve that waits its turn behind the requests of other sessions.
ResolveInTurn(h, i, rid, behavior, txt, payload) ==
    [h EXCEPT
        !.trace[i] = Append(@, ResolveEff(h.inst[i].sessionId, rid, behavior,
                                          txt, payload, i)),
        !.query = [q \in Queries |->
            IF /\ h.query[q].owner = i
               /\ \A j \in Insts \ {i} : DOMAIN h.inst[j].pendingRequests = {}
            THEN [h.query[q] EXCEPT !.awaiting = @ \ {rid}]
            ELSE h.query[q]]]

\* Fault: a resolve that never reaches the engine.
ResolveLost(h, i, rid, behavior, txt, payload) ==
    [h EXCEPT !.trace[i] = Append(@, ResolveEff(h.inst[i].sessionId, rid, behavior,
                                                txt, payload, i))]

\* pending.resolve(result): the engine's promise for request rid of session i.
Resolve(h, i, rid, behavior, txt, payload) ==
    [h EXCEPT
        !.trace[i] = Append(@, ResolveEff(h.inst[i].sessionId, rid, behavior,
                                          txt, payload, i)),
        !.query = [q \in Queries |->
            IF h.query[q].owner = i
            THEN [h.query[q] EXCEPT !.awaiting = @ \ {rid}]
            ELSE h.query[q]]]

\* AgentSession.resolvePermission; Undefined stands for an argument not given.
Undefined == "undefined"

\* Fault: a resolvePermission that leaves the entry in the table.
ResolvePermissionKeep(h, i, rid, behavior, updatedInput, message) ==
    IF rid \notin DOMAIN h.inst[i].pendingRequests THEN h
    ELSE IF behavior = "allow"
         THEN Resolve(h, i, rid, "allow", "",
                      IF updatedInput = NoPayload
                      THEN h.inst[i].pendingRequests[rid] ELSE updatedInput)
         ELSE Resolve(h, i, rid, "deny",
                      IF message = Undefined THEN "Denied by user" ELSE message,
                      NoPayload)

\* Fault: a resolvePermission that does not look the id up.
ResolvePermissionAny(h, i, rid, behavior, updatedInput, message) ==
    Resolve([h EXCEPT !.inst[i].pendingRequests = MapDelete(@, rid)], i, rid,
            behavior, "", NoPayload)

ResolvePermission(h, i, rid, behavior, updatedInput, message) ==
    IF rid \notin DOMAIN h.inst[i].pendingRequests THEN h
    ELSE LET pending == h.inst[i].pendingRequests[rid]
             h1 == [h EXCEPT !.inst[i].pendingRequests = MapDelete(@, rid)]
         IN  IF behavior = "allow"
             THEN Resolve(h1, i, rid, "allow", "",
                          IF updatedInput = NoPayload THEN pending
                          ELSE updatedInput)
             ELSE Resolve(h1, i, rid, "deny",
                          IF message = Undefined THEN "Denied by user"
                          ELSE message, NoPayload)

\* Fault: a resolveQuestion that hands over the answers without the payload
\* they answer.
ResolveQuestionBare(h, i, rid, answers) ==
    IF rid \notin DOMAIN h.inst[i].pendingRequests THEN h
    ELSE Resolve([h EXCEPT !.inst[i].pendingRequests = MapDelete(@, rid)],
                 i, rid, "allow", "", [NoPayload EXCEPT !.answers = answers])

\* AgentSession.resolveQuestion
ResolveQuestion(h, i, rid, answers) ==
    IF rid \notin DOMAIN h.inst[i].pendingRequests THEN h
    ELSE LET pending == h.inst[i].pendingRequests[rid]
             h1 == [h EXCEPT !.inst[i].pendingRequests = MapDelete(@, rid)]
         IN  Resolve(h1, i, rid, "allow", "",
                     [pending EXCEPT !.answers = answers])

\* cli.ts, the sink of the terminal session: renderToTerminal, broadcast, and a
\* readline prompt per permission_request or question.  promptQuestion with an
\* empty question list (text "none") calls resolveQuestion at once.
CliSinkCall(h, i, msg) ==
    LET h1 == Broadcast([h EXCEPT !.wire[Tty] = Append(@, msg)], msg)
    IN  IF msg.type = "permission_request"
        THEN [h1 EXCEPT !.prompts = @ \cup {[rid |-> msg.requestId,
                                            kind |-> "permission"]}]
        ELSE IF msg.type = "question"
        THEN IF msg.text = "none"
             THEN ResolveQuestion(h1, i, msg.requestId, Absent)
             ELSE [h1 EXCEPT !.prompts = @ \cup {[rid |-> msg.requestId,
                                                 kind |-> "question"]}]
        ELSE h1

\* this.sendToClient(msg)
SendToClient(h, i, msg) ==
    LET h1 == [h EXCEPT !.trace[i] = Append(@, msg)]
    IN  IF h.inst[i].sink = CliSink
        THEN CliSinkCall(h1, i, msg)
        ELSE Send(h1, h.inst[i].sink, msg)

\* AgentSession.runQuery up to its `for await`
RunQueryBegin(h, i, resumeId) ==
    LET h1 == SendToClient(h, i, StatusEv(h.inst[i].sessionId, "processing", i))
        q == h1.nQuery + 1
    IN  [h1 EXCEPT !.nQuery = q,
                   !.query[q] = [NoQueryRec EXCEPT !.owner = i, !.st = "running",
                                                   !.resume = resumeId],
                   !.inst[i].activeQuery = q]

\* Fault: a runQuery whose catch swallows the `idle` of its finally.
RunQueryEndNoIdle(h, q, threw) ==
    LET i == h.query[q].owner
        sid == h.inst[i].sessionId
        h1 == [h EXCEPT !.inst[i].activeQuery = NoQuery, !.query[q].st = "done"]
    IN  IF threw THEN SendToClient(h1, i, ErrorEv(sid, "engine failed", i))
        ELSE SendToClient(h1, i, StatusEv(sid, "idle", i))

\* Fault: a runQuery that reports `idle` before the failure.
RunQueryEndIdleFirst(h, q, threw) ==
    LET i == h.query[q].owner
        sid == h.inst[i].sessionId
        h1 == [h EXCEPT !.inst[i].activeQuery = NoQuery, !.query[q].st = "done"]
        h2 == SendToClient(h1, i, StatusEv(sid, "idle", i))
    IN  IF threw THEN SendToClient(h2, i, ErrorEv(sid, "engine failed", i)) ELSE h2

\* AgentSession.runQuery from the end of its `for await`: catch and finally
RunQueryEnd(h, q, threw) ==
    LET i == h.query[q].owner
        sid == h.inst[i].sessionId
        h1 == IF threw THEN SendToClient(h, i, ErrorEv(sid, "engine failed", i))
              ELSE h
        h2 == [h1 EXCEPT !.inst[i].activeQuery = NoQuery, !.query[q].st = "done"]
    IN  SendToClient(h2, i, StatusEv(sid, "idle", i))

\* AgentSession.start
SessionStart(h, i) ==
    RunQueryBegin(SendToClient(h, i, StatusEv(h.inst[i].sessionId, "started", i)),
                  i, NoId)

\* Fault: a sendPrompt that does not look at claudeSessionId.
SendPromptUnchecked(h, i) == RunQueryBegin(h, i, h.inst[i].claudeSessionId)

\* AgentSession.sendPrompt
SendPrompt(h, i) ==
    IF h.inst[i].claudeSessionId = NoId
    THEN SendToClient(h, i, ErrorEv(h.inst[i].sessionId,
                                    "No active session to send prompt to", i))
    ELSE RunQueryBegin(h, i, h.inst[i].claudeSessionId)

\* AgentSession.resume
SessionResume(h, i, claudeSessionId) == RunQueryBegin(h, i, claudeSessionId)

\* Fault: an interrupt that also forgets what the session is waiting for.
InterruptAndForget(h, i) ==
    LET h1 == IF h.inst[i].activeQuery # NoQuery
              THEN [h EXCEPT !.query[h.inst[i].activeQuery].interrupted = TRUE]
              ELSE h
    IN  [h1 EXCEPT !.inst[i].pendingRequests = EmptyMap]

\* AgentSession.interrupt
Interrupt(h, i) ==
    IF h.inst[i].activeQuery # NoQuery
    THEN [h EXCEPT !.query[h.inst[i].activeQuery].interrupted = TRUE]
    ELSE h

\* the loop of AgentSession.close over this.pendingRequests, in insertion order
RECURSIVE DenyAll(_, _, _)
DenyAll(h, i, rids) ==
    IF rids = {} THEN h
    ELSE DenyAll(Resolve(h, i, Min(rids), "deny", "Session closed", NoPayload),
                 i, rids \ {Min(rids)})

\* Fault: a close that emits `closed` first and denies afterwards.
CloseThenDeny(h, i) ==
    LET h1 == SendToClient(h, i, StatusEv(h.inst[i].sessionId, "closed", i))
        h2 == DenyAll(h1, i, DOMAIN h1.inst[i].pendingRequests)
    IN  [h2 EXCEPT !.inst[i].pendingRequests = EmptyMap]

\* AgentSession.close
Close(h, i) ==
    LET aq == h.inst[i].activeQuery
        h1 == IF aq # NoQuery
              THEN [h EXCEPT !.query[aq].st = "closed",
                             !.inst[i].activeQuery = NoQuery]
              ELSE h
        h2 == DenyAll(h1, i, DOMAIN h1.inst[i].pendingRequests)
        h3 == [h2 EXCEPT !.inst[i].pendingRequests = EmptyMap]
    IN  SendToClient(h3, i, StatusEv(h.inst[i].sessionId, "closed", i))

\* Fault: a forwardMessage that labels what it relays with the id of the
\* session constructed first.
ForwardMessageAsFirst(h, q, type, claudeSessionId) ==
    SendToClient(h, h.query[q].owner,
                 PlainEv(h.inst[1].sessionId, "assistant_text", h.query[q].owner))

\* AgentSession.forwardMessage, by the SDK message's type
ForwardMessage(h, q, type, claudeSessionId) ==
    LET i == h.query[q].owner
        sid == h.inst[i].sessionId
    IN  CASE type = "system" ->
               SendToClient([h EXCEPT !.inst[i].claudeSessionId = claudeSessionId],
                            i, Effect(sid, "system", "", 0, claudeSessionId,
                                      NoPayload, i))
          [] type = "assistant" -> SendToClient(h, i, PlainEv(sid, "assistant_text", i))
          [] type = "result" -> SendToClient(h, i, PlainEv(sid, "result", i))
          [] type = "stream_event" -> SendToClient(h, i, PlainEv(sid, "stream_delta", i))
          [] OTHER -> h

\* Fault: a handleCanUseTool that numbers a request with the lowest id not
\* pending.
HandleCanUseToolReuse(h, q, toolName, input, questions) ==
    LET i == h.query[q].owner
        sid == h.inst[i].sessionId
        rid == Min({r \in 1..(h.inst[i].requestCounter + 1) :
                      r \notin DOMAIN h.inst[i].pendingRequests})
        h1 == [h EXCEPT !.inst[i].requestCounter = IF rid > @ THEN rid ELSE @]
        h2 == SendToClient(h1, i, Effect(sid, IF toolName = "AskUserQuestion"
                                              THEN "question" ELSE "permission_request",
                                         "", rid, toolName, input, i))
    IN  [h2 EXCEPT !.inst[i].pendingRequests = MapSet(@, rid, input),
                   !.query[q].awaiting = @ \cup {rid}]

\* AgentSession.handleCanUseTool; questions is "none" or "some" (input.questions)
HandleCanUseTool(h, q, toolName, input, questions) ==
    LET i == h.query[q].owner
        sid == h.inst[i].sessionId
        rid == h.inst[i].requestCounter + 1
        h1 == [h EXCEPT !.inst[i].requestCounter = rid]
        h2 == IF toolName = "AskUserQuestion"
              THEN SendToClient(h1, i, Effect(sid, "question", "", rid, questions,
                                              NoPayload, i))
              ELSE SendToClient(h1, i, Effect(sid, "permission_request", "", rid,
                                              toolName, input, i))
    IN  [h2 EXCEPT !.inst[i].pendingRequests = MapSet(@, rid, input),
                   !.query[q].awaiting = @ \cup {rid}]

\* ------------------------------------------------------------ AgentServer

\* An inbound record as parsed from one line.
Msg(type, sid, rid, behavior, updatedInput, message, answers, claudeSessionId) ==
    [type |-> type, sessionId |-> sid, requestId |-> rid, behavior |-> behavior,
     updatedInput |-> updatedInput, message |-> message, answers |-> answers,
     claudeSessionId |-> claudeSessionId]

Bare(type, sid) == Msg(type, sid, 0, "", NoPayload, Undefined, Absent, NoId)

RespIds == 1..NReq

InboundMsgs ==
    {Bare(t, sid) : t \in {"start_session", "send_prompt", "interrupt",
                           "close_session", "no_such_type"},
                    sid \in SessionIds}
    \cup {Bare("invalid", "")}
    \cup {Msg("resume_session", sid, 0, "", NoPayload, Undefined, Absent, e) :
            sid \in SessionIds, e \in ResumeIds}
    \cup {Msg("permission_response", sid, rid, "allow", u, Undefined, Absent, NoId) :
            sid \in SessionIds, rid \in RespIds, u \in {NoPayload, UpdInput}}
    \cup {Msg("permission_response", sid, rid, "deny", NoPayload, m, Absent, NoId) :
            sid \in SessionIds, rid \in RespIds, m \in {Undefined, "no"}}
    \cup {Msg("question_response", sid, rid, "", NoPayload, Undefined, "a1", NoId) :
            sid \in SessionIds, rid \in RespIds}

\* Fault: a startSession that does not look the id up.
StartSessionAgain(h, c, msg) ==
    LET i == h.nInst + 1
    IN  SessionStart([h EXCEPT !.nInst = i,
                               !.inst[i] = NewSession(msg.sessionId, c),
                               !.sessions[msg.sessionId] = i], i)

\* AgentServer.startSession
StartSession(h, c, msg) ==
    IF h.sessions[msg.sessionId] # NoInst
    THEN Send(h, c, ErrorEv(msg.sessionId, "already exists", NoInst))
    ELSE LET i == h.nInst + 1
         IN  SessionStart([h EXCEPT !.nInst = i,
                                    !.inst[i] = NewSession(msg.sessionId, c),
                                    !.sessions[msg.sessionId] = i], i)

\* AgentServer.resumeSession
ResumeSession(h, c, msg) ==
    LET i == h.nInst + 1
    IN  SessionResume([h EXCEPT !.nInst = i,
                                !.inst[i] = NewSession(msg.sessionId, c),
                                !.sessions[msg.sessionId] = i],
                      i, msg.claudeSessionId)

\* AgentServer.closeSession up to its await (the delete follows in a microtask)
CloseSession(h, c, msg) ==
    IF h.sessions[msg.sessionId] # NoInst
    THEN Close(h, h.sessions[msg.sessionId])
    ELSE Send(h, c, ErrorEv(msg.sessionId, "not found", NoInst))

\* AgentServer.closeSession after its await
CloseSessionDelete(h, sid) == [h EXCEPT !.sessions[sid] = NoInst]

\* Fault: a handleMessage that answers `error` when getSession finds nothing.
HandleMessageLoud(h, c, msg) ==
    LET s == h.sessions[msg.sessionId]
        loud == Send(h, c, ErrorEv(msg.sessionId, "not found", NoInst))
    IN  CASE msg.type = "invalid" ->
               Send(h, c, ErrorEv("", "Invalid message", NoInst))
          [] msg.type = "start_session" -> StartSession(h, c, msg)
          [] msg.type = "resume_session" -> ResumeSession(h, c, msg)
          [] msg.type = "close_session" -> CloseSession(h, c, msg)
          [] msg.type = "send_prompt" ->
               IF s # NoInst THEN SendPrompt(h, s) ELSE loud
          [] msg.type = "permission_response" ->
               IF s # NoInst
               THEN ResolvePermission(h, s, msg.requestId, msg.behavior,
                                      msg.updatedInput, msg.message)
               ELSE loud
          [] msg.type = "question_response" ->
               IF s # NoInst THEN ResolveQuestion(h, s, msg.requestId, msg.answers)
               ELSE loud
          [] msg.type = "interrupt" -> IF s # NoInst THEN Interrupt(h, s) ELSE loud
          [] OTHER -> h

\* the `message` handler of AgentServer.onConnection, and handleMessage
HandleMessage(h, c, msg) ==
    LET s == h.sessions[msg.sessionId]
    IN  CASE msg.type = "invalid" ->
               Send(h, c, ErrorEv("", "Invalid message", NoInst))
          [] msg.type = "start_session" -> StartSession(h, c, msg)
          [] msg.type = "resume_session" -> ResumeSession(h, c, msg)
          [] msg.type = "close_session" -> CloseSession(h, c, msg)
          [] msg.type = "send_prompt" ->
               IF s # NoInst THEN SendPrompt(h, s) ELSE h
          [] msg.type = "permission_response" ->
               IF s # NoInst
               THEN ResolvePermission(h, s, msg.requestId, msg.behavior,
                                      msg.updatedInput, msg.message)
               ELSE h
          [] msg.type = "question_response" ->
               IF s # NoInst THEN ResolveQuestion(h, s, msg.requestId, msg.answers)
               ELSE h
          [] msg.type = "interrupt" -> IF s # NoInst THEN Interrupt(h, s) ELSE h
          [] OTHER -> h

\* A parsed line as the `message` handler sees it: whether the value is
\* truthy, its typeof, whether it has the keys `type` and `sessionId`, and the
\* record it is when it has both.
Raw(truthy, typeof, hasType, hasSessionId, msg) ==
    [truthy |-> truthy, typeof |-> typeof, hasType |-> hasType,
     hasSessionId |-> hasSessionId, msg |-> msg]

Nothing == Bare("invalid", "")
RawNull == Raw(FALSE, "object", FALSE, FALSE, Nothing)
RawZero == Raw(FALSE, "number", FALSE, FALSE, Nothing)
RawNumber == Raw(TRUE, "number", FALSE, FALSE, Nothing)
RawString == Raw(TRUE, "string", FALSE, FALSE, Nothing)
RawArray == Raw(TRUE, "object", FALSE, FALSE, Nothing)
RawTypeOnly == Raw(TRUE, "object", TRUE, FALSE, Nothing)
RawIdOnly == Raw(TRUE, "object", FALSE, TRUE, Nothing)
RawOf(msg) == Raw(TRUE, "object", TRUE, TRUE, msg)

\* !msg || typeof msg !== "object" || !("type" in msg) || !("sessionId" in msg)
Malformed(raw) ==
    \/ ~raw.truthy
    \/ raw.typeof # "object"
    \/ ~raw.hasType
    \/ ~raw.hasSessionId

\* Fault: a `message` handler that drops what it cannot dispatch.
OnMessageDrop(h, c, raw) ==
    IF Malformed(raw) THEN h ELSE HandleMessage(h, c, raw.msg)

\* the `message` handler of AgentServer.onConnection
OnMessage(h, c, raw) ==
    IF Malformed(raw)
    THEN Send(h, c, ErrorEv("", "Invalid message", NoInst))
    ELSE HandleMessage(h, c, raw.msg)

\* Fault: an `error` listener that answers like the `message` handler does
\* for an unusable record.
RECURSIVE ListenersLoud(_, _, _)
ListenersLoud(h, c, out) ==
    IF out = <<>> THEN h
    ELSE ListenersLoud(OnMessage(h, c, RawNumber), c, Tail(out))

\* The listeners of one onData call, in the order of its emits: `message`
\* goes to the handler above (a number is not an object), `error` is logged.
RECURSIVE Listeners(_, _, _)
Listeners(h, c, out) ==
    IF out = <<>> THEN h
    ELSE Listeners(IF out[1].ev = "message" THEN OnMessage(h, c, RawNumber) ELSE h,
                   c, Tail(out))

\* the continuations a handler leaves behind its await
MicroOf(h, msg) ==
    IF msg.type = "close_session" /\ h.sessions[msg.sessionId] # NoInst
    THEN <<[op |-> "delete", sid |-> msg.sessionId]>>
    ELSE <<>>

\* AgentServer.stop up to its await: close() on every registered session
RECURSIVE CloseAll(_, _)
CloseAll(h, ord) ==
    IF ord = <<>> THEN h
    ELSE CloseAll(Close(h, h.sessions[Head(ord)]), Tail(ord))

\* Fault: a stop() that forgets the transports without closing them.
StopClearKeepOpen(h) ==
    [h EXCEPT !.sessions = [s \in SessionIds |-> NoInst],
              !.transports = {}]

\* AgentServer.stop after its await
StopClear(h) ==
    [h EXCEPT !.sessions = [s \in SessionIds |-> NoInst],
              !.sock = [c \in Conns |->
                  IF c \in h.transports /\ h.sock[c] = "open" THEN "ended"
                  ELSE h.sock[c]],
              !.transports = {}]

\* The orders in which stop() may meet the registered sessions.
Registered(h) == {s \in SessionIds : h.sessions[s] # NoInst}
Orders(S) == {o \in UNION {[1..n -> S] : n \in {Cardinality(S)}} :
                \A a, b \in 1..Cardinality(S) : a # b => o[a] # o[b]}

\* ------------------------------------------------------------ initial state

EmptyHeap ==
    [sessions |-> [s \in SessionIds |-> NoInst], transports |-> {},
     sock |-> [c \in Conns |-> "fresh"], wire |-> [c \in Sinks |-> <<>>],
     inst |-> [i \in Insts |-> NoSession], nInst |-> 0,
     query |-> [q \in Queries |-> NoQueryRec], nQuery |-> 0,
     trace |-> [i \in Insts |-> <<>>], prompts |-> {}]

\* The AgentSession object runCli constructs and registers.
CliInst == 1

\* runCli after server.start(): new AgentSession, registerSession
CliHeap ==
    [EmptyHeap EXCEPT !.nInst = CliInst,
                      !.inst[CliInst] = NewSession(CLI_SESSION_ID, CliSink),
                      !.sessions[CLI_SESSION_ID] = CliInst]

HeapIs(h) ==
    /\ sessions = h.sessions
    /\ transports = h.transports
    /\ sock = h.sock
    /\ wire = h.wire
    /\ inst = h.inst
    /\ nInst = h.nInst
    /\ query = h.query
    /\ nQuery = h.nQuery
    /\ trace = h.trace
    /\ prompts = h.prompts

\* server.start() has resolved, nothing is queued, no chunk is being read.
Started ==
    /\ server = "listening"
    /\ microq = <<>>
    /\ chunk = NoConn
    /\ framer = [c \in Conns |-> NewFramer]
    /\ peer = NewPeer

\* index.ts with --server: only the listening server
Init ==
    /\ mode = "server"
    /\ Started
    /\ HeapIs(EmptyHeap)
    /\ cli = [st |-> "off", wait |-> NoQuery, started |-> FALSE]

\* runCli up to followUpLoop's first await, with or without a prompt argument
InitCli ==
    /\ mode = "cli"
    /\ Started
    /\ \/ /\ HeapIs(SessionStart(CliHeap, CliInst))
          /\ cli = [st |-> "busy", wait |-> 1, started |-> TRUE]
       \/ /\ HeapIs(CliHeap)
          /\ cli = [st |-> "input", wait |-> NoQuery, started |-> FALSE]

\* ------------------------------------------------------------ actions

\* No handler is running and no continuation is queued: the event loop takes
\* the next I/O event.
Quiescent == chunk = NoConn /\ microq = <<>>

\* followUpLoop resumes when the invocation it awaits has ended.
CliAfter(h, q) ==
    IF cli.st = "busy" /\ cli.wait = q
    THEN [cli EXCEPT !.st = "input", !.wait = NoQuery]
    ELSE cli

\* createServer's connection callback: AgentServer.onConnection
Connect(c) ==
    /\ Quiescent
    /\ server = "listening"
    /\ sock[c] = "fresh"
    /\ sock' = [sock EXCEPT ![c] = "open"]
    /\ transports' = transports \cup {c}
    /\ UNCHANGED <<peer, framer, mode, server, sessions, wire, inst, nInst, query, nQuery,
                   trace, prompts, cli, microq, chunk>>

\* Fault: a `close` handler that also closes the sessions bound to the socket
\* and drops them from the registry.
DisconnectAndClose(c) ==
    /\ Quiescent
    /\ sock[c] \in {"open", "ended"}
    /\ LET owned == {sid \in SessionIds :
                        sessions[sid] # NoInst /\ inst[sessions[sid]].sink = c}
           h1 == [Heap EXCEPT !.sock[c] = "destroyed", !.transports = @ \ {c}]
           h2 == CloseAll(h1, CHOOSE o \in Orders(owned) : TRUE)
       IN  SetHeap([h2 EXCEPT !.sessions = [sid \in SessionIds |->
                       IF sid \in owned THEN NoInst ELSE h2.sessions[sid]]])
    /\ UNCHANGED <<peer, framer, mode, server, cli, microq, chunk>>

\* The peer closes the socket: the transport's `close` handler
Disconnect(c) ==
    /\ Quiescent
    /\ sock[c] \in {"open", "ended"}
    /\ sock' = [sock EXCEPT ![c] = "destroyed"]
    /\ transports' = transports \ {c}
    /\ UNCHANGED <<peer, framer, mode, server, sessions, wire, inst, nInst, query, nQuery,
                   trace, prompts, cli, microq, chunk>>

\* NdjsonTransport.onData, one line of the chunk: the `message` handler.
\* `more`: the chunk holds a further line, handled before anything else runs
\* (told apart only while a continuation is queued: with none queued the
\* next line of the chunk and the first line of the next chunk act alike).
Receive(c, msg, more) ==
    /\ chunk = c \/ Quiescent
    /\ sock[c] \in {"open", "ended"}
    /\ SetHeap(HandleMessage(Heap, c, msg))
    /\ microq' = microq \o MicroOf(Heap, msg)
    /\ more => microq' # <<>>
    /\ chunk' = IF more THEN c ELSE NoConn
    /\ UNCHANGED <<peer, framer, mode, server, cli>>

\* NdjsonTransport.onData, one line of the chunk, whatever it parsed to.
ReceiveRecord(c, raw, more) ==
    /\ chunk = c \/ Quiescent
    /\ sock[c] \in {"open", "ended"}
    /\ SetHeap(OnMessage(Heap, c, raw))
    /\ microq' = IF Malformed(raw) THEN microq ELSE microq \o MicroOf(Heap, raw.msg)
    /\ chunk' = IF more THEN c ELSE NoConn
    /\ UNCHANGED <<peer, framer, mode, server, cli>>

\* The socket's `data` event: NdjsonTransport.onData with the bytes of one
\* chunk, and every listener it calls.
SocketData(c, bytes) ==
    /\ Quiescent
    /\ sock[c] \in {"open", "ended"}
    /\ framer' = [framer EXCEPT ![c] = OnData(@, bytes)]
    /\ SetHeap(Listeners(Heap, c, OnDataLoop(framer[c].buffer \o ToStringUtf8(bytes), <<>>).out))
    /\ UNCHANGED <<peer, mode, server, cli, microq, chunk>>

\* NdjsonTransport.send(msg) at one end of the pair: the line is written and
\* is in flight.
TransportSend(msg) ==
    /\ Quiescent
    /\ peer' = [peer EXCEPT !.sent = Append(@, msg), !.bytes = @ \o LineOf(msg)]
    /\ UNCHANGED <<framer, mode, server, sessions, transports, sock, wire, inst,
                   nInst, query, nQuery, trace, prompts, cli, microq, chunk>>

\* The other end's `data` event with the first n bytes in flight.
PeerData(n) ==
    /\ Quiescent
    /\ n \in 1..Len(peer.bytes)
    /\ peer' = [peer EXCEPT !.bytes = SubSeq(@, n + 1, Len(@)),
                            !.f = OnData(@, SubSeq(peer.bytes, 1, n))]
    /\ UNCHANGED <<framer, mode, server, sessions, transports, sock, wire, inst,
                   nInst, query, nQuery, trace, prompts, cli, microq, chunk>>

\* The engine yields its `system` message, the first of an invocation.
EngineSystem(q, claudeSessionId) ==
    /\ Quiescent
    /\ query[q].st = "running"
    /\ ~query[q].system
    /\ SetHeap([ForwardMessage(Heap, q, "system", claudeSessionId)
                  EXCEPT !.query[q].system = TRUE])
    /\ UNCHANGED <<peer, framer, mode, server, cli, microq, chunk>>

\* The engine yields a further message.
EngineMessage(q, type) ==
    /\ Quiescent
    /\ query[q].st = "running"
    /\ query[q].system
    /\ SetHeap([ForwardMessage(Heap, q, type, NoId)
                  EXCEPT !.query[q].msgs = @ + 1])
    /\ UNCHANGED <<peer, framer, mode, server, cli, microq, chunk>>

\* The engine reaches a decision point: the canUseTool callback.
EngineCanUseTool(q, toolName, questions) ==
    /\ Quiescent
    /\ query[q].st = "running"
    /\ query[q].system
    /\ SetHeap(HandleCanUseTool(Heap, q, toolName, OrigInput, questions))
    /\ UNCHANGED <<peer, framer, mode, server, cli, microq, chunk>>

\* The engine's iteration ends.  It does not end normally while it awaits a
\* decision, unless it was interrupted or closed.
EngineDone(q) ==
    /\ Quiescent
    /\ \/ query[q].st = "closed"
       \/ /\ query[q].st = "running"
          /\ query[q].awaiting = {} \/ query[q].interrupted
    /\ SetHeap(RunQueryEnd(Heap, q, FALSE))
    /\ cli' = CliAfter(Heap, q)
    /\ UNCHANGED <<peer, framer, mode, server, microq, chunk>>

\* The engine's iteration throws.
EngineThrow(q) ==
    /\ Quiescent
    /\ query[q].st \in {"running", "closed"}
    /\ SetHeap(RunQueryEnd(Heap, q, TRUE))
    /\ cli' = CliAfter(Heap, q)
    /\ UNCHANGED <<peer, framer, mode, server, microq, chunk>>

\* followUpLoop: a line typed at the "> " prompt
CliInput ==
    /\ Quiescent
    /\ cli.st = "input"
    /\ IF ~cli.started
       THEN /\ SetHeap(SessionStart(Heap, CliInst))
            /\ cli' = [st |-> "busy", wait |-> nQuery + 1, started |-> TRUE]
       ELSE /\ SetHeap(SendPrompt(Heap, CliInst))
            /\ cli' = IF inst[CliInst].claudeSessionId = NoId THEN cli
                      ELSE [cli EXCEPT !.st = "busy", !.wait = nQuery + 1]
    /\ UNCHANGED <<peer, framer, mode, server, microq, chunk>>

\* promptPermission / promptQuestion: the readline callback fires
CliAnswer(p, allowed) ==
    /\ Quiescent
    /\ p \in prompts
    /\ cli.st \in {"input", "busy"}
    /\ LET h == [Heap EXCEPT !.prompts = @ \ {p}]
       IN  SetHeap(IF p.kind = "permission"
                   THEN ResolvePermission(h, CliInst, p.rid,
                                          IF allowed THEN "allow" ELSE "deny",
                                          NoPayload, Undefined)
                   ELSE ResolveQuestion(h, CliInst, p.rid, "a1"))
    /\ UNCHANGED <<peer, framer, mode, server, cli, microq, chunk>>

\* followUpLoop on EOF: rl.close() and session.close(), up to the await
CliEof ==
    /\ Quiescent
    /\ cli.st = "input"
    /\ SetHeap(Close([Heap EXCEPT !.prompts = {}], CliInst))
    /\ cli' = [cli EXCEPT !.st = "closing"]
    /\ microq' = microq \o <<[op |-> "stop", sid |-> NoId]>>
    /\ UNCHANGED <<peer, framer, mode, server, chunk>>

\* index.ts, SIGINT or SIGTERM with --server: shutdown() calls server.stop()
Signal(ord) ==
    /\ Quiescent
    /\ mode = "server"
    /\ server = "listening"
    /\ ord \in Orders(Registered(Heap))
    /\ SetHeap(CloseAll(Heap, ord))
    /\ server' = "stopping"
    /\ microq' = microq \o <<[op |-> "clear", sid |-> NoId]>>
    /\ UNCHANGED <<peer, framer, mode, cli, chunk>>

\* A queued continuation runs: closeSession after `await session.close()`
DeleteTask ==
    /\ chunk = NoConn
    /\ microq # <<>>
    /\ Head(microq).op = "delete"
    /\ SetHeap(CloseSessionDelete(Heap, Head(microq).sid))
    /\ microq' = Tail(microq)
    /\ UNCHANGED <<peer, framer, mode, server, cli, chunk>>

\* A queued continuation runs: followUpLoop's `await server.stop()`
StopTask(ord) ==
    /\ chunk = NoConn
    /\ microq # <<>>
    /\ Head(microq).op = "stop"
    /\ ord \in Orders(Registered(Heap))
    /\ SetHeap(CloseAll(Heap, ord))
    /\ microq' = Tail(microq) \o <<[op |-> "clear", sid |-> NoId]>>
    /\ server' = "stopping"
    /\ cli' = [cli EXCEPT !.st = "stopping"]
    /\ UNCHANGED <<peer, framer, mode, chunk>>

\* No accepted connection is left: server.close() has nothing to wait for.
NoConnections(h) == \A c \in Conns : h.sock[c] \in {"fresh", "destroyed"}

\* A queued continuation runs: AgentServer.stop after its await, up to
\* server.close(), whose callback resolves stop() once no connection is left
ClearTask ==
    /\ chunk = NoConn
    /\ microq # <<>>
    /\ Head(microq).op = "clear"
    /\ SetHeap(StopClear(Heap))
    /\ microq' = Tail(microq)
    /\ server' = IF NoConnections(Heap) THEN "closed" ELSE "closing"
    /\ cli' = IF mode = "cli" /\ NoConnections(Heap)
              THEN [cli EXCEPT !.st = "done"] ELSE cli
    /\ UNCHANGED <<peer, framer, mode, chunk>>

\* The callback of server.close(): the last connection has ended, stop()
\* resolves.
ServerClosed ==
    /\ Quiescent
    /\ server = "closing"
    /\ NoConnections(Heap)
    /\ server' = "closed"
    /\ cli' = IF mode = "cli" THEN [cli EXCEPT !.st = "done"] ELSE cli
    /\ UNCHANGED <<peer, framer, mode, sessions, transports, sock, wire, inst,
                   nInst, query, nQuery, trace, prompts, microq, chunk>>

\* ------------------------------------------------------------ environments
\* A specification is the program with an environment: the front-ends, the
\* terminal and the engine, each offering a bounded number of inputs.

RECURSIVE Sum(_, _)
Sum(f, S) == IF S = {} THEN 0
             ELSE LET x == CHOOSE y \in S : TRUE IN f[x] + Sum(f, S \ {x})

IsServerError(e) == e.type = "error" /\ e.src = NoInst
IsSessionError(e) == e.type = "error" /\ e.text = "No active session to send prompt to"
IsClosed(e) == e.type = "session_status" /\ e.status = "closed"

\* What the bounds count.
ErrorsSent(h) ==
    Sum([c \in Conns |-> Len(SelectSeq(h.wire[c], IsServerError))], Conns)
    + Sum([i \in Insts |-> Len(SelectSeq(h.trace[i], IsSessionError))], Insts)
RequestsMade(h) == Sum([i \in Insts |-> h.inst[i].requestCounter], Insts)
ClosesMade(h) == Sum([i \in Insts |-> Len(SelectSeq(h.trace[i], IsClosed))], Insts)

\* Whether the bounds b leave room for what the handler of msg would do.
Room(h, msg, b) ==
    LET s == h.sessions[msg.sessionId]
        errs == ErrorsSent(h) < b.errs
        fresh == h.nInst < b.inst /\ h.nQuery < b.query
    IN  CASE msg.type = "invalid" -> errs
          [] msg.type = "start_session" -> IF s # NoInst THEN errs ELSE fresh
          [] msg.type = "resume_session" -> fresh
          [] msg.type = "close_session" ->
               IF s = NoInst THEN errs ELSE ClosesMade(h) < b.closes
          [] msg.type = "send_prompt" ->
               IF s = NoInst THEN TRUE
               ELSE IF h.inst[s].claudeSessionId = NoId THEN errs
               ELSE h.nQuery < b.query
          [] OTHER -> TRUE

AllOrders == UNION {Orders(S) : S \in SUBSET SessionIds}

\* The lines a front-end may send about session sid.
LinesOf(sid, types) ==
    {m \in InboundMsgs : m.sessionId = sid /\ m.type \in types}

\* ---- the registry: the server-only process, two front-ends, one session id

MaxInst == 2        \* AgentSession objects ever constructed
MaxQuery == 2       \* engine invocations ever made
MaxErrs == 1        \* lines ever answered with `error`
MaxCloses == 1      \* close() calls ever made through close_session

MainBounds ==
    [inst |-> MaxInst, query |-> MaxQuery, errs |-> MaxErrs, closes |-> MaxCloses]

MainMsgs ==
    LinesOf("s1", {"start_session", "resume_session", "send_prompt", "close_session"})

Next ==
    \/ \E c \in Conns : Connect(c)
    \/ \E c \in Conns, msg \in MainMsgs, more \in BOOLEAN :
          Room(Heap, msg, MainBounds) /\ Receive(c, msg, more)
    \/ \E q \in Queries, e \in EngineIds : EngineSystem(q, e)
    \/ \E q \in Queries : EngineDone(q)
    \/ \E q \in Queries : EngineThrow(q)
    \/ DeleteTask

Spec == Init /\ [][Next]_vars

\* ---- the decisions: the server-only process, one front-end that may go
\* away, one session with one engine invocation

OneInst == 1        \* AgentSession objects ever constructed
OneQuery == 1       \* engine invocations ever made
OneReq == 2         \* decision callbacks ever made
OneCloses == 2      \* close() calls ever made through close_session

OneBounds ==
    [inst |-> OneInst, query |-> OneQuery, errs |-> 0, closes |-> OneCloses]

OneMsgs ==
    {m \in LinesOf("s1", {"start_session", "interrupt", "close_session",
                         "permission_response", "question_response"}) :
        m.updatedInput = NoPayload /\ m.message = Undefined}

NextOne ==
    \/ Connect("c1")
    \/ Disconnect("c1")
    \/ \E msg \in OneMsgs, more \in BOOLEAN :
          Room(Heap, msg, OneBounds) /\ Receive("c1", msg, more)
    \/ \E q \in Queries, e \in EngineIds : EngineSystem(q, e)
    \/ \E q \in Queries :
          RequestsMade(Heap) < OneReq /\ EngineCanUseTool(q, "Bash", "none")
    \/ \E q \in Queries :
          RequestsMade(Heap) < OneReq /\ EngineCanUseTool(q, "AskUserQuestion", "some")
    \/ \E q \in Queries : EngineDone(q)
    \/ \E q \in Queries : EngineThrow(q)
    \/ DeleteTask

SpecOne == Init /\ [][NextOne]_vars

\* ---- the terminal: the interactive process, its "cli" session, one front-end

CliQuery == 1       \* engine invocations ever made
CliReq == 2         \* decision callbacks ever made

CliMsgs == LinesOf(CLI_SESSION_ID, {"permission_response", "question_response"})

NextCli ==
    \/ Connect("c1")
    \/ \E msg \in CliMsgs : Receive("c1", msg, FALSE)
    \/ nQuery < CliQuery /\ CliInput
    \/ \E p \in prompts, allowed \in BOOLEAN : CliAnswer(p, allowed)
    \/ CliEof
    \/ \E ord \in AllOrders : StopTask(ord)
    \/ ClearTask
    \/ \E q \in Queries, e \in EngineIds : EngineSystem(q, e)
    \/ \E q \in Queries :
          RequestsMade(Heap) < CliReq /\ EngineCanUseTool(q, "Bash", "none")
    \/ \E q \in Queries :
          RequestsMade(Heap) < CliReq /\ EngineCanUseTool(q, "AskUserQuestion", "some")
    \/ \E q \in Queries :
          RequestsMade(Heap) < CliReq /\ EngineCanUseTool(q, "AskUserQuestion", "none")
    \/ \E q \in Queries : EngineDone(q)
    \/ \E q \in Queries : EngineThrow(q)

SpecCli == InitCli /\ [][NextCli]_vars

\* ---- two sessions: the server-only process, one front-end that may go away,
\* two session ids started side by side and closed

TwoInst == 2        \* AgentSession objects ever constructed
TwoQuery == 2       \* engine invocations ever made
TwoMsgs == 1        \* engine messages per invocation, after `system`
TwoCloses == 1      \* close() calls ever made through close_session

TwoBounds ==
    [inst |-> TwoInst, query |-> TwoQuery, errs |-> 0, closes |-> TwoCloses]

TwoLines ==
    LinesOf("s1", {"start_session", "close_session"})
    \cup LinesOf("s2", {"start_session", "close_session"})

NextTwo ==
    \/ Connect("c1")
    \/ Disconnect("c1")
    \/ \E msg \in TwoLines, more \in BOOLEAN :
          Room(Heap, msg, TwoBounds) /\ Receive("c1", msg, more)
    \/ \E q \in Queries, e \in EngineIds : EngineSystem(q, e)
    \/ \E q \in Queries :
          query[q].msgs < TwoMsgs /\ EngineMessage(q, "assistant")
    \/ \E q \in Queries : EngineDone(q)
    \/ \E q \in Queries : EngineThrow(q)
    \/ DeleteTask

SpecTwo == Init /\ [][NextTwo]_vars

\* ---- the round trip: the server-only process, one front-end, two sessions.
\* The engine runs on and the front-end answers what session s1 asks; nobody
\* has to answer session s2.

LiveInst == 2       \* AgentSession objects ever constructed
LiveQuery == 2      \* engine invocations ever made
LiveReq == 2        \* decision callbacks ever made

LiveBounds == [inst |-> LiveInst, query |-> LiveQuery, errs |-> 0, closes |-> 0]

LiveLines ==
    {m \in LinesOf("s1", {"start_session", "permission_response"})
           \cup LinesOf("s2", {"start_session", "permission_response"}) :
        m.updatedInput = NoPayload /\ m.message = Undefined}

\* The front-end answers a request session sid is waiting for.
Answer(sid, behavior) ==
    \E msg \in LiveLines :
        /\ msg.type = "permission_response"
        /\ msg.sessionId = sid
        /\ msg.behavior = behavior
        /\ sessions[sid] # NoInst
        /\ msg.requestId \in DOMAIN inst[sessions[sid]].pendingRequests
        /\ Receive("c1", msg, FALSE)

NextLive ==
    \/ Connect("c1")
    \/ \E msg \in LiveLines :
          /\ msg.type = "start_session"
          /\ Room(Heap, msg, LiveBounds)
          /\ Receive("c1", msg, FALSE)
    \/ \E sid \in {"s1", "s2"}, b \in {"allow", "deny"} : Answer(sid, b)
    \/ \E q \in Queries, e \in EngineIds : EngineSystem(q, e)
    \/ \E q \in Queries :
          RequestsMade(Heap) < LiveReq /\ EngineCanUseTool(q, "Bash", "none")
    \/ \E q \in Queries : EngineDone(q)
    \/ \E q \in Queries : EngineThrow(q)

\* The engine, once free to end, ends; a request of s1 is answered.
LiveFairness ==
    /\ \A q \in Queries : WF_vars(EngineDone(q))
    /\ WF_vars(Answer("s1", "deny"))

SpecLive == Init /\ [][NextLive]_vars /\ LiveFairness

\* ---- shared sessions: the server-only process, two front-ends that may
\* go away, two sessions that either front-end may start and answer

ShareInst == 2      \* AgentSession objects ever constructed
ShareQuery == 2     \* engine invocations ever made
ShareReq == 2       \* decision callbacks ever made

ShareBounds == [inst |-> ShareInst, query |-> ShareQuery, errs |-> 0, closes |-> 0]

ShareLines ==
    {m \in LinesOf("s1", {"start_session", "permission_response"})
           \cup LinesOf("s2", {"start_session", "permission_response"}) :
        m.updatedInput = NoPayload /\ m.message = Undefined}

NextShare ==
    \/ \E c \in Conns : Connect(c)
    \/ \E c \in Conns : Disconnect(c)
    \/ \E c \in Conns, msg \in ShareLines :
          Room(Heap, msg, ShareBounds) /\ Receive(c, msg, FALSE)
    \/ \E q \in Queries, e \in EngineIds : EngineSystem(q, e)
    \/ \E q \in Queries :
          RequestsMade(Heap) < ShareReq /\ EngineCanUseTool(q, "Bash", "none")
    \/ \E q \in Queries : EngineDone(q)

SpecShare == Init /\ [][NextShare]_vars

\* ---- unusable records: the server-only process, one front-end whose lines
\* parse to anything at all, one session

JunkInst == 1       \* AgentSession objects ever constructed
JunkQuery == 1      \* engine invocations ever made
JunkErrs == 2       \* lines ever answered with `error`

JunkBounds == [inst |-> JunkInst, query |-> JunkQuery, errs |-> JunkErrs, closes |-> 0]

JunkRecords ==
    {RawNull, RawZero, RawNumber, RawString, RawArray, RawTypeOnly, RawIdOnly}
    \cup {RawOf(m) : m \in LinesOf("s1", {"start_session", "no_such_type"})}

NextJunk ==
    \/ Connect("c1")
    \/ Disconnect("c1")
    \/ \E raw \in JunkRecords, more \in BOOLEAN :
          /\ IF Malformed(raw) THEN ErrorsSent(Heap) < JunkErrs
             ELSE Room(Heap, raw.msg, JunkBounds)
          /\ ReceiveRecord("c1", raw, more)
    \/ \E q \in Queries, e \in EngineIds : EngineSystem(q, e)
    \/ \E q \in Queries : EngineDone(q)

SpecJunk == Init /\ [][NextJunk]_vars

\* ---- the framer: the server-only process, one front-end whose bytes arrive
\* in chunks cut anywhere

MaxBytes == 5       \* bytes a socket ever delivers

\* the chunks of at most n bytes
ChunksUpTo(n) == UNION {[1..k -> Bytes] : k \in 1..n}

NextFramer ==
    \/ Connect("c1")
    \/ Disconnect("c1")
    \/ \E bytes \in ChunksUpTo(MaxBytes - Len(framer["c1"].fed)) :
          SocketData("c1", bytes)

SpecFramer == Init /\ [][NextFramer]_vars

\* ---- lines nothing handles: the server-only process, one front-end that
\* sends bytes that may not parse and records of a type nobody handles

DropInst == 1       \* AgentSession objects ever constructed
DropQuery == 1      \* engine invocations ever made
DropErrs == 1       \* records ever answered with `error`
DropBytes == 4      \* bytes the socket ever delivers

DropBounds == [inst |-> DropInst, query |-> DropQuery, errs |-> DropErrs, closes |-> 0]

DropRecords == {RawOf(m) : m \in LinesOf("s1", {"start_session", "no_such_type"})}

\* the chunks of at most n bytes that hold a digit, a brace or a line feed
DropChunks(n) == {b \in ChunksUpTo(n) : \A k \in 1..Len(b) : b[k] \in {"1", "{", "\n"}}

NextDrop ==
    \/ Connect("c1")
    \/ Disconnect("c1")
    \/ \E raw \in DropRecords, more \in BOOLEAN :
          Room(Heap, raw.msg, DropBounds) /\ ReceiveRecord("c1", raw, more)
    \/ \E bytes \in DropChunks(DropBytes - Len(framer["c1"].fed)) :
          SocketData("c1", bytes)
    \/ \E q \in Queries, e \in EngineIds : EngineSystem(q, e)
    \/ \E q \in Queries : EngineDone(q)

SpecDrop == Init /\ [][NextDrop]_vars

\* ---- the round trip: one end of a transport pair sends records of every
\* kind, the socket delivers their bytes to the other end in chunks cut
\* anywhere

MaxText == 2        \* characters in a record's content
MaxSent == 1        \* records ever sent

Texts == UNION {[1..k -> TextChars] : k \in 0..MaxText}
Records == {Record(kind, text) : kind \in Kinds, text \in Texts}

NextTrip ==
    \/ \E msg \in Records : Len(peer.sent) < MaxSent /\ TransportSend(msg)
    \/ \E n \in 1..(2 * MaxText + 6) : PeerData(n)

SpecTrip == Init /\ [][NextTrip]_vars

\* ---- shutdown: the server-only process, one front-end, two sessions with
\* requests pending, and a signal

StopInst == 2       \* AgentSession objects ever constructed
StopQuery == 2      \* engine invocations ever made
StopReq == 2        \* decision callbacks ever made

StopBounds == [inst |-> StopInst, query |-> StopQuery, errs |-> 0, closes |-> 0]

StopLines == LinesOf("s1", {"start_session"}) \cup LinesOf("s2", {"start_session"})

NextStop ==
    \/ Connect("c1")
    \/ Disconnect("c1")
    \/ \E msg \in StopLines :
          Room(Heap, msg, StopBounds) /\ Receive("c1", msg, FALSE)
    \/ \E q \in Queries, e \in EngineIds : EngineSystem(q, e)
    \/ \E q \in Queries :
          RequestsMade(Heap) < StopReq /\ EngineCanUseTool(q, "Bash", "none")
    \/ \E q \in Queries : EngineDone(q)
    \/ \E ord \in AllOrders : Signal(ord)
    \/ ClearTask
    \/ ServerClosed

SpecStop == Init /\ [][NextStop]_vars

\* A connection that stop() has ended closes: the socket layer completes the
\* close that socket.end() began.
SocketClose(c) == sock[c] = "ended" /\ Disconnect(c)

\* The continuation of stop() runs, ended connections close, and the
\* callback of server.close() is called once no connection is left.
HaltFairness ==
    /\ WF_vars(ClearTask)
    /\ \A c \in Conns : WF_vars(SocketClose(c))
    /\ WF_vars(ServerClosed)

SpecHalt == Init /\ [][NextStop]_vars /\ HaltFairness

\* ---- broadcast: the interactive process, its "cli" session, two
\* front-ends that come and go

CastQuery == 2      \* engine invocations ever made
CastMsgs == 1       \* engine messages per invocation, after `system`
CastErrs == 1       \* prompts ever answered with `error`

NextCast ==
    \/ \E c \in Conns : Connect(c)
    \/ \E c \in Conns : Disconnect(c)
    \/ /\ IF cli.started /\ inst[CliInst].claudeSessionId = NoId
          THEN ErrorsSent(Heap) < CastErrs
          ELSE nQuery < CastQuery
       /\ CliInput
    \/ \E q \in Queries, e \in EngineIds : EngineSystem(q, e)
    \/ \E q \in Queries :
          query[q].msgs < CastMsgs /\ EngineMessage(q, "assistant")
    \/ \E q \in Queries : EngineDone(q)

SpecCast == InitCli /\ [][NextCast]_vars

\* ---- the held session: the interactive process, whose follow-up loop
\* holds the "cli" session, and one front-end that may close that session

HeldQuery == 2      \* engine invocations ever made
HeldErrs == 1       \* prompts ever answered with `error`
HeldCloses == 1     \* close() calls ever made through close_session

HeldBounds == [inst |-> CliInst, query |-> HeldQuery, errs |-> HeldErrs,
               closes |-> HeldCloses]

NextHeld ==
    \/ Connect("c1")
    \/ \E msg \in LinesOf(CLI_SESSION_ID, {"close_session"}) :
          Room(Heap, msg, HeldBounds) /\ Receive("c1", msg, FALSE)
    \/ DeleteTask
    \/ /\ IF cli.started /\ inst[CliInst].claudeSessionId = NoId
          THEN ErrorsSent(Heap) < HeldErrs
          ELSE nQuery < HeldQuery
       /\ CliInput
    \/ \E q \in Queries, e \in EngineIds : EngineSystem(q, e)
    \/ \E q \in Queries : EngineDone(q)

SpecHeld == InitCli /\ [][NextHeld]_vars

\* ---- one run: the server-only process, one front-end that starts session
\* s1 and resumes a conversation as session s2; the engine relays, skips,
\* completes or fails, and does not run forever

RunInst == 2        \* AgentSession objects ever constructed
RunQuery == 2       \* engine invocations ever made
RunMsgs == 2        \* engine messages per invocation, after `system`

RunBounds == [inst |-> RunInst, query |-> RunQuery, errs |-> 0, closes |-> 0]

RunLines == LinesOf("s1", {"start_session"}) \cup LinesOf("s2", {"resume_session"})

NextRun ==
    \/ Connect("c1")
    \/ \E msg \in RunLines :
          Room(Heap, msg, RunBounds) /\ Receive("c1", msg, FALSE)
    \/ \E q \in Queries, e \in EngineIds : EngineSystem(q, e)
    \/ \E q \in Queries, type \in {"assistant", "user"} :
          query[q].msgs < RunMsgs /\ EngineMessage(q, type)
    \/ \E q \in Queries : EngineDone(q)
    \/ \E q \in Queries : EngineThrow(q)

\* The engine's iteration ends.
RunFairness == \A q \in Queries : WF_vars(EngineDone(q))

SpecRun == Init /\ [][NextRun]_vars /\ RunFairness

\* ---- asking again: the server-only process, one front-end, one session
\* that is answered while its engine asks and is prompted again

AskQuery == 2       \* engine invocations ever made
AskReq == 2         \* decision callbacks ever made

AskBounds == [inst |-> 1, query |-> AskQuery, errs |-> 0, closes |-> 0]

AskLines ==
    {m \in LinesOf("s1", {"start_session", "send_prompt",
                         "permission_response", "question_response"}) :
        m.updatedInput = NoPayload /\ m.message = Undefined}

NextAsk ==
    \/ Connect("c1")
    \/ \E msg \in AskLines :
          Room(Heap, msg, AskBounds) /\ Receive("c1", msg, FALSE)
    \/ \E q \in Queries, e \in EngineIds : EngineSystem(q, e)
    \/ \E q \in Queries :
          RequestsMade(Heap) < AskReq /\ EngineCanUseTool(q, "Bash", "none")
    \/ \E q \in Queries :
          RequestsMade(Heap) < AskReq /\ EngineCanUseTool(q, "AskUserQuestion", "some")
    \/ \E q \in Queries : EngineDone(q)

SpecAsk == Init /\ [][NextAsk]_vars

\* ------------------------------------------------------------ properties

Created == 1..nInst
Events(i) == SelectSeq(trace[i], IsEvent)
IsResolve(e) == e.type = "resolve"
IsEngineError(e) == e.type = "error" /\ e.text = "engine failed"
IsPrefix(a, b) == Len(a) <= Len(b) /\ a = SubSeq(b, 1, Len(a))
ClosedAt(i) == {k \in 1..Len(trace[i]) : IsClosed(trace[i][k])}

\* C1: a pending decision is resolved at most once.  Whatever the order of
\* permission_response, question_response, terminal answers and close(), no
\* session calls the engine's continuation of one request id twice.
C1_ResolvedAtMostOnce ==
    \A i \in Created : \A j, k \in 1..Len(trace[i]) :
        (/\ IsResolve(trace[i][j])
         /\ IsResolve(trace[i][k])
         /\ trace[i][j].requestId = trace[i][k].requestId) => j = k

\* The race of C1: a socket client has answered a request whose terminal
\* prompt is still open, so the terminal's answer is still to come.
C1_Race ==
    \E p \in prompts : \E k \in 1..Len(trace[CliInst]) :
        /\ IsResolve(trace[CliInst][k])
        /\ trace[CliInst][k].requestId = p.rid
        /\ trace[CliInst][k].text # "Session closed"

\* What the sink of session i has been sent by session i.
Delivered(i) == SelectSeq(wire[inst[i].sink], LAMBDA e : e.src = i)

\* C2: the outward events of a session reach its sink in the order the
\* session produced them.  While the connection is open the sink has every
\* event of the session, once each and in order, however the sessions'
\* events interleave; once it is gone the sink has a prefix of them.
C2_PerSessionOrder ==
    \A i \in Created :
        IF sock[inst[i].sink] = "open"
        THEN Delivered(i) = Events(i)
        ELSE IsPrefix(Delivered(i), Events(i))

\* Two sessions on one open connection whose events alternate on the wire.
C2_Interleaved ==
    /\ sock["c1"] = "open"
    /\ \E j, k, l \in 1..Len(wire["c1"]) :
        /\ j < k /\ k < l
        /\ wire["c1"][j].sessionId = "s1"
        /\ wire["c1"][k].sessionId = "s2"
        /\ wire["c1"][l].sessionId = "s1"
        /\ wire["c1"][l].type = "assistant_text"

\* The denials close() hands out for the request ids rids, oldest first.
RECURSIVE Denials(_, _)
Denials(i, rids) ==
    IF rids = {} THEN <<>>
    ELSE <<ResolveEff(inst[i].sessionId, Min(rids), "deny", "Session closed",
                      NoPayload, i)>> \o Denials(i, rids \ {Min(rids)})

\* Session i runs close() in this step.
CloseStep(i) == Len(SelectSeq(trace'[i], IsClosed)) > Len(SelectSeq(trace[i], IsClosed))

\* C3: close() on a session with K pending requests resolves each of them
\* with deny "Session closed", then emits `closed`, and leaves the pending
\* table empty; a close() of a session closed before resolves nothing.
C3_CloseDeniesAll ==
    [][\A i \in Created : CloseStep(i) =>
          /\ trace'[i] = trace[i]
                           \o Denials(i, DOMAIN inst[i].pendingRequests)
                           \o <<StatusEv(inst[i].sessionId, "closed", i)>>
          /\ inst'[i].pendingRequests = EmptyMap
          /\ ClosedAt(i) # {} =>
                trace'[i] = Append(trace[i], StatusEv(inst[i].sessionId, "closed", i))
      ]_vars

\* A session closed with two requests pending, and then closed again.
C3_ClosedTwice ==
    \E i \in Created :
        /\ Cardinality(ClosedAt(i)) = 2
        /\ Len(SelectSeq(trace[i], LAMBDA e : IsResolve(e) /\ e.text = "Session closed")) = 2

\* C4: close() is idempotent, so a session emits exactly one `closed`: none
\* of its close() calls after the first adds a `closed` to its event stream.
C4_ClosedOnce == \A i \in Created : Cardinality(ClosedAt(i)) <= 1

\* C5: `closed` is terminal: a session that has emitted `closed` emits no
\* further outward event.
C5_ClosedIsLast ==
    \A i \in Created : \A k \in ClosedAt(i) : \A l \in 1..Len(trace[i]) :
        l > k => ~IsEvent(trace[i][l])

\* The responses a front-end may send about session sid.
Responses(sid) == LinesOf(sid, {"permission_response", "question_response"})

\* C6: a permission_response or question_response naming a request id the
\* session does not hold (never issued, or resolved before) changes nothing:
\* no event, no continuation, the same pending table, status and registry.
C6_AbsentIdNoEffect ==
    \A msg \in Responses("s1") :
        (/\ sessions["s1"] # NoInst
         /\ msg.requestId \notin DOMAIN inst[sessions["s1"]].pendingRequests)
        => HandleMessage(Heap, "c1", msg) = Heap

\* A registered session one of whose requests a front-end has resolved while
\* another is pending, and a request id it has not issued yet.
C6_Resolved ==
    /\ sessions["s1"] # NoInst
    /\ \E e \in {trace[sessions["s1"]][k] : k \in 1..Len(trace[sessions["s1"]])} :
        IsResolve(e) /\ e.text # "Session closed"
    /\ inst[sessions["s1"]].requestCounter < NReq

\* C7: start_session for a registered id creates nothing and disturbs
\* nothing: its whole effect is one `error` with that session id, written to
\* the connection that sent it.
C7_DuplicateStartRejected ==
    \A c \in Conns :
        (sock[c] = "open" /\ sessions["s1"] # NoInst) =>
            HandleMessage(Heap, c, Bare("start_session", "s1"))
              = [Heap EXCEPT !.wire[c] =
                    Append(@, ErrorEv("s1", "already exists", NoInst))]

\* A duplicate start_session was rejected on a connection other than the one
\* the session is bound to, and the session went on.
C7_Rejected ==
    \E c \in Conns :
        /\ sessions["s1"] # NoInst
        /\ inst[sessions["s1"]].sink # c
        /\ wire[c] = <<ErrorEv("s1", "already exists", NoInst)>>
        /\ trace[sessions["s1"]][Len(trace[sessions["s1"]])].status = "idle"

\* C8: every session created and not closed is the one the registry holds
\* under its id.
C8_LiveIsRegistered ==
    \A i \in Created : ClosedAt(i) = {} => sessions[inst[i].sessionId] = i

\* The invocations of session i that are running.
Running(i) == {q \in Queries : query[q].owner = i /\ query[q].st = "running"}

\* C9: a session has at most one engine invocation in flight.
C9_OneInvocation == \A i \in Created : Cardinality(Running(i)) <= 1

\* Session i reports an engine failure in this step.
ThrowStep(i) == Len(SelectSeq(trace'[i], IsEngineError)) > Len(SelectSeq(trace[i], IsEngineError))

\* C10: an engine invocation that throws makes its session emit one `error`
\* and then `idle`; the session is left with no active invocation and the
\* registry is as before.
C10_ThrowThenIdle ==
    [][\A i \in Created : ThrowStep(i) =>
          /\ trace'[i] = trace[i]
                \o <<ErrorEv(inst[i].sessionId, "engine failed", i),
                     StatusEv(inst[i].sessionId, "idle", i)>>
          /\ inst'[i].activeQuery = NoQuery
          /\ sessions' = sessions
      ]_vars

\* A registered session whose invocation threw.
C10_Threw ==
    \E i \in Created :
        /\ sessions[inst[i].sessionId] = i
        /\ Len(SelectSeq(trace[i], IsEngineError)) = 1

\* Session i was told "Denied by user" for a request.
DeniedByUser(i) ==
    \E k \in 1..Len(trace[i]) :
        /\ IsResolve(trace[i][k])
        /\ trace[i][k].status = "deny"
        /\ trace[i][k].text = "Denied by user"

IsIdle(e) == e.type = "session_status" /\ e.status = "idle"

\* Invocation q has ended and its session has emitted `idle`.
Idled(q) ==
    /\ query[q].st = "done"
    /\ SelectSeq(trace[query[q].owner], IsIdle) # <<>>

\* C11: once a permission_response with behavior deny has released a
\* decision of session s1, the invocation, if the engine runs on, ends and
\* the session emits `idle`.
C11_DenyLeadsToIdle ==
    \A q \in Queries :
        (/\ query[q].st = "running"
         /\ inst[query[q].owner].sessionId = "s1"
         /\ DeniedByUser(query[q].owner)) ~> Idled(q)

\* The invocation of s1 has ended after a deny from the front-end.
C11_DeniedAndIdle ==
    \E q \in Queries :
        /\ Idled(q)
        /\ inst[query[q].owner].sessionId = "s1"
        /\ DeniedByUser(query[q].owner)
        /\ SelectSeq(trace[query[q].owner], IsEngineError) = <<>>

\* Connection c is lost in this step.
DropStep(c) == sock[c] # "destroyed" /\ sock'[c] = "destroyed"

\* The sessions whose sink is a lost connection and that are registered.
Orphans ==
    {i \in Created : /\ sock[inst[i].sink] = "destroyed"
                     /\ sessions[inst[i].sessionId] = i}

DenyLine(sid, rid) ==
    Msg("permission_response", sid, rid, "deny", NoPayload, Undefined, Absent, NoId)

C13_DisconnectCleansUp ==
    \A i \in Created :
        sock[inst[i].sink] = "destroyed" =>
            /\ sessions[inst[i].sessionId] # i
            /\ inst[i].pendingRequests = EmptyMap

\* What handling msg leaves of everything that is not session i.
OnlyTouches(h, i) ==
    /\ h.sessions = sessions
    /\ h.transports = transports
    /\ h.sock = sock
    /\ h.wire = wire
    /\ h.nInst = nInst
    /\ h.nQuery = nQuery
    /\ \A j \in Insts \ {i} : h.inst[j] = inst[j] /\ h.trace[j] = trace[j]
    /\ \A q \in Queries : query[q].owner # i => h.query[q] = query[q]

\* C14: a permission_response or question_response for (sid, r), on whatever
\* open connection it arrives, resolves request r of the session registered
\* under sid, once, and touches no other session, even one that holds a
\* pending request with the same id.
C14_RoutedBySessionId ==
    \A sid \in {"s1", "s2"} : \A c \in Conns : \A msg \in Responses(sid) :
        (/\ sock[c] = "open"
         /\ sessions[sid] # NoInst
         /\ msg.requestId \in DOMAIN inst[sessions[sid]].pendingRequests)
        => LET i == sessions[sid]
               h == HandleMessage(Heap, c, msg)
           IN  /\ OnlyTouches(h, i)
               /\ DOMAIN h.inst[i].pendingRequests
                    = DOMAIN inst[i].pendingRequests \ {msg.requestId}
               /\ Len(h.trace[i]) = Len(trace[i]) + 1
               /\ IsResolve(h.trace[i][Len(h.trace[i])])
               /\ h.trace[i][Len(h.trace[i])].requestId = msg.requestId
               /\ \A q \in Queries : query[q].owner = i =>
                     h.query[q].awaiting = query[q].awaiting \ {msg.requestId}

\* Two sessions asked under the same request id; one was answered by a
\* front-end that is not the one that started it, the other still waits.
C14_SameIdOtherSession ==
    \E i, j \in Created :
        /\ i # j
        /\ inst[i].sink # inst[j].sink
        /\ sock[inst[i].sink] = "destroyed"
        /\ SelectSeq(Delivered(i), LAMBDA e : e.type = "permission_request") = <<>>
        /\ \E k \in 1..Len(trace[i]) :
              /\ IsResolve(trace[i][k])
              /\ trace[i][k].requestId \in DOMAIN inst[j].pendingRequests
              /\ trace[i][k].requestId \in UNION {query[q].awaiting : q \in Running(j)}

\* What session i emits in this step.
Emitted(i) ==
    SubSeq(SelectSeq(trace'[i], IsEvent), Len(Events(i)) + 1,
           Len(SelectSeq(trace'[i], IsEvent)))

\* C15: a session can be observed from every connection: what a session
\* emits is written to every socket that is open, not only to the one whose
\* front-end started the session.
C15_ObservedEverywhere ==
    [][\A i \in Insts : \A c \in Conns :
          (sock[c] = "open" /\ sock'[c] = "open") =>
              SelectSeq(wire'[c], LAMBDA e : e.src = i)
                = SelectSeq(wire[c], LAMBDA e : e.src = i) \o Emitted(i)
      ]_vars

\* C16: a session is not held up by the unanswered requests of another:
\* whatever session s2 is waiting for, and for however long, an invocation of
\* session s1 whose own requests are answered ends and s1 emits `idle`.
C16_NotDelayedByOthers ==
    \A q \in Queries :
        (/\ query[q].st = "running"
         /\ inst[query[q].owner].sessionId = "s1") ~> Idled(q)

\* Session s2 asked first and still waits; session s1 was started after that,
\* asked, was answered and has reached `idle`.
C16_OvertakenWhileWaiting ==
    \E a, b \in Created : \E j, k, l \in 1..Len(wire["c1"]) :
        /\ inst[a].sessionId = "s2" /\ inst[b].sessionId = "s1"
        /\ DOMAIN inst[a].pendingRequests # {}
        /\ Running(a) # {}
        /\ j < k /\ k < l
        /\ wire["c1"][j].src = a /\ wire["c1"][j].type = "permission_request"
        /\ wire["c1"][k].src = b /\ wire["c1"][k].status = "started"
        /\ wire["c1"][l].src = b /\ IsIdle(wire["c1"][l])
        /\ \E e \in {trace[b][n] : n \in 1..Len(trace[b])} : IsResolve(e)

\* The lines that address a session without creating or closing one.
Addressed(sid) ==
    LinesOf(sid, {"send_prompt", "interrupt", "permission_response",
                  "question_response"})

\* C17: a send_prompt, interrupt, permission_response or question_response
\* for a session id that is not registered changes nothing: nothing is
\* written to any socket, and the registry and every session stay as they are.
C17_UnknownIdDropped ==
    \A sid \in SessionIds : \A c \in Conns : \A msg \in Addressed(sid) :
        (sessions[sid] = NoInst /\ sock[c] = "open")
        => HandleMessage(Heap, c, msg) = Heap

\* Nothing is registered under s1, while a session is still running.
C17_Unregistered ==
    /\ sessions["s1"] = NoInst
    /\ \E c \in Conns : sock[c] = "open"
    /\ \E i \in Created : Running(i) # {} /\ DOMAIN inst[i].pendingRequests = {}
    /\ Quiescent

\* Connection c can deliver a line now.
CanDeliver(c) == sock[c] = "open" /\ (chunk = c \/ Quiescent)

\* C18: close_session for an id that is not registered, or whose session a
\* close_session has closed already, is answered with one `error` carrying
\* that id on the requesting connection and changes nothing else.
C18_SecondCloseNotFound ==
    \A sid \in {"s1", "s2"} : \A c \in Conns :
        (/\ CanDeliver(c)
         /\ sessions[sid] = NoInst \/ ClosedAt(sessions[sid]) # {})
        => HandleMessage(Heap, c, Bare("close_session", sid))
             = [Heap EXCEPT !.wire[c] =
                   Append(@, ErrorEv(sid, "not found", NoInst))]

InvalidMessage == ErrorEv("", "Invalid message", NoInst)

\* C19: a parsed value that is not an object, or lacks `type` or
\* `sessionId`, is answered with one `error` with empty session id on the
\* connection it came from, and nothing else happens: the socket stays as it
\* is, nothing is dispatched, the registry and the sessions are unchanged.
C19_MalformedRecord ==
    \A c \in Conns : \A raw \in JunkRecords :
        (sock[c] = "open" /\ Malformed(raw))
        => OnMessage(Heap, c, raw)
             = [Heap EXCEPT !.wire[c] = Append(@, InvalidMessage)]

\* The connection got an `error` for an unusable record and then used the
\* same socket to start a session, which ran.
C19_ErrorThenStarted ==
    \E j, k \in 1..Len(wire["c1"]) :
        /\ j < k
        /\ wire["c1"][j] = InvalidMessage
        /\ wire["c1"][k].type = "system"
        /\ sock["c1"] = "open"

\* the lines of a text that are terminated by a line feed, in order
RECURSIVE TerminatedLines(_)
TerminatedLines(text) ==
    IF IndexOfNewline(text) = 0 THEN <<>>
    ELSE <<SubSeq(text, 1, IndexOfNewline(text) - 1)>>
         \o TerminatedLines(SubSeq(text, IndexOfNewline(text) + 1, Len(text)))

\* what one line is owed: nothing when blank, one message when it parses,
\* one malformed-input signal otherwise
Owed(line) ==
    IF Trim(line) = <<>> THEN <<>>
    ELSE IF JsonParse(Trim(line)).ok
         THEN <<MessageEvent(JsonParse(Trim(line)).value)>>
    ELSE <<ErrorEvent>>

RECURSIVE OwedAll(_)
OwedAll(lines) ==
    IF lines = <<>> THEN <<>> ELSE Owed(lines[1]) \o OwedAll(Tail(lines))

\* C20: what a transport has emitted is, line by line and in order, what the
\* terminated lines of the bytes it was given are owed, and on the socket
\* there is one `error` per message emitted (a number is not a record) and
\* nothing for a malformed-input signal.
C20_LineClassification ==
    \A c \in Conns :
        /\ framer[c].out = OwedAll(TerminatedLines(ToStringUtf8(framer[c].fed)))
        /\ Len(wire[c]) = Len(SelectSeq(framer[c].out, LAMBDA e : e.ev = "message"))

\* C21: send writes one line per record, and once the socket has delivered
\* its bytes, cut into chunks in whatever way, the framer at the other end
\* has emitted exactly the records sent, each once, in order, equal to what
\* was sent, content included.
C21_RoundTrip ==
    /\ \A k \in 1..Len(peer.sent) :
          LET line == LineOf(peer.sent[k])
          IN  \A j \in 1..Len(line) : line[j] = "\n" <=> j = Len(line)
    /\ peer.bytes = <<>> =>
          peer.f.out = [k \in 1..Len(peer.sent) |-> MessageEvent(peer.sent[k])]

\* stop() begins in this step.
StopStep == server = "listening" /\ server' = "stopping"

\* What stop() does before its await: every session registered when it is
\* called is closed, its requests denied, and nothing is cleared yet.
StopClosesAll ==
    [][StopStep =>
          /\ \A i \in Created :
                sessions[inst[i].sessionId] = i =>
                    /\ CloseStep(i)
                    /\ inst'[i].pendingRequests = EmptyMap
                    /\ trace'[i] = trace[i]
                                     \o Denials(i, DOMAIN inst[i].pendingRequests)
                                     \o <<StatusEv(inst[i].sessionId, "closed", i)>>
          /\ sessions' = sessions
          /\ transports' = transports
          /\ sock' = sock
      ]_vars

\* What stop() does after its await: the registry and the connection set
\* are emptied and every connection is ended.
StopThenClears ==
    [][(server = "stopping" /\ server' # "stopping") =>
          /\ Registered(Heap') = {}
          /\ transports' = {}
          /\ \A c \in Conns : sock'[c] # "open"
          /\ trace' = trace
      ]_vars

\* C22: when stop() has completed, the registry and the connection set are
\* both empty.
C22_StopLeavesNothing ==
    server = "closed" => Registered(Heap) = {} /\ transports = {}

\* The front-ends connected now: accepted and not closed.
Connected == {c \in Conns : sock[c] = "open"}

\* C23: broadcast writes the event once to every connection that has been
\* accepted and has not closed, and to no other, whatever session the event
\* names; and so everything the terminal session emits reaches exactly the
\* front-ends connected at that moment, once.
C23_BroadcastToConnected ==
    /\ [](\A sid \in SessionIds : \A st \in {"idle", "closed"} :
             Broadcast(Heap, StatusEv(sid, st, NoInst))
               = [Heap EXCEPT !.wire = [c \in Sinks |->
                     IF c \in Connected
                     THEN Append(wire[c], StatusEv(sid, st, NoInst))
                     ELSE wire[c]]])
    /\ [][\A c \in Conns :
             wire'[c] = IF c \in Connected THEN wire[c] \o Emitted(CliInst)
                        ELSE wire[c]]_vars

\* Two front-ends got `processing`; one of them went away and missed the
\* `system` event that the other got once.
C23_OneLeft ==
    \E c, d \in Conns :
        /\ sock[c] = "destroyed" /\ sock[d] = "open"
        /\ Len(SelectSeq(wire[c], LAMBDA e : e.status = "processing")) = 1
        /\ Len(SelectSeq(wire[d], LAMBDA e : e.status = "processing")) = 1
        /\ Len(SelectSeq(wire[c], LAMBDA e : e.type = "system")) = 0
        /\ Len(SelectSeq(wire[d], LAMBDA e : e.type = "system")) = 1

NoActiveSession(i) ==
    ErrorEv(inst[i].sessionId, "No active session to send prompt to", i)

\* C24: send_prompt for a session that has captured no conversation id from
\* a `system` event makes the session emit one `error` and nothing else: no
\* status, no invocation, the session and the registry as before.  With an
\* id captured it starts an invocation that resumes that id.
C24_SendPromptNeedsId ==
    \A c \in Conns :
        (sock[c] = "open" /\ sessions["s1"] # NoInst) =>
            LET i == sessions["s1"]
                h == HandleMessage(Heap, c, Bare("send_prompt", "s1"))
            IN  IF inst[i].claudeSessionId = NoId
                THEN h = [Heap EXCEPT
                            !.trace[i] = Append(@, NoActiveSession(i)),
                            !.wire[inst[i].sink] =
                                IF sock[inst[i].sink] = "open"
                                THEN Append(@, NoActiveSession(i)) ELSE @]
                ELSE /\ h.nQuery = nQuery + 1
                     /\ h.query[h.nQuery].owner = i
                     /\ h.query[h.nQuery].st = "running"
                     /\ h.query[h.nQuery].resume = inst[i].claudeSessionId
                     /\ h.trace[i] = Append(trace[i],
                                            StatusEv(inst[i].sessionId, "processing", i))
                     /\ h.inst[i].claudeSessionId = inst[i].claudeSessionId

\* A session that was sent a prompt too early and answered `error`, then
\* captured an id and runs an invocation that resumes it.
C24_ErrorThenResumed ==
    \E i \in Created : \E q \in Queries :
        /\ SelectSeq(trace[i], IsSessionError) # <<>>
        /\ inst[i].claudeSessionId # NoId
        /\ query[q].owner = i
        /\ query[q].st = "running"
        /\ query[q].resume = inst[i].claudeSessionId

\* What a line may parse to when two sessions are in use.
AnyRecords ==
    {RawNull, RawZero, RawNumber, RawString, RawArray, RawTypeOnly, RawIdOnly}
    \cup {RawOf(m) : m \in {l \in InboundMsgs : l.sessionId \in {"s1", "s2"}}}

IsProcessing(e) == e.type = "session_status" /\ e.status = "processing"

\* C26: a session on which close() has run starts no engine invocation and
\* does not go back to processing: nothing it emits after `closed` is a
\* `processing` status, and no invocation of it is made after `closed`.
C26_ClosedStaysClosed ==
    \A i \in Created : \A k \in ClosedAt(i) : \A l \in 1..Len(trace[i]) :
        l > k => ~IsProcessing(trace[i][l])

IsRelayed(e) == e.type \in {"system", "assistant_text", "result", "stream_delta"}

\* The invocations of session i that have ended.
Ended(i) == {q \in Queries : query[q].owner = i /\ query[q].st = "done"}

\* The event stream of a session with one invocation: the given opening,
\* then relayed events, then, once the invocation has ended and not before,
\* an `error` if it failed and one `idle`, which is last.
OneRun(i, opening) ==
    LET ev == Events(i)
        n == Len(ev)
        body == SubSeq(ev, Len(opening) + 1, IF Ended(i) = {} THEN n ELSE n - 1)
    IN  /\ IsPrefix(opening, ev)
        /\ Len(SelectSeq(ev, IsIdle)) = Cardinality(Ended(i))
        /\ Ended(i) # {} => n > Len(opening) /\ IsIdle(ev[n])
        /\ \A k \in 1..Len(body) :
              \/ IsRelayed(body[k])
              \/ IsEngineError(body[k]) /\ k = Len(body) /\ Ended(i) # {}

\* C27: a session started by start emits `started`, `processing`, the
\* events it relays and, when the engine completes or fails, one `idle`
\* after all of them; and its invocation, the engine running on, ends with
\* that `idle`.
C27_StartSequence ==
    /\ [](\A i \in Created : inst[i].sessionId = "s1" =>
             OneRun(i, <<StatusEv("s1", "started", i),
                         StatusEv("s1", "processing", i)>>))
    /\ \A q \in Queries :
          (query[q].st = "running" /\ inst[query[q].owner].sessionId = "s1")
            ~> Idled(q)

\* The started session relayed `system` and a message, the engine failed, and
\* the session emitted `error` and `idle`.
C27_RelayedThenFailed ==
    \E i \in Created :
        /\ inst[i].sessionId = "s1"
        /\ Len(Events(i)) = 6
        /\ Events(i)[3].type = "system"
        /\ Events(i)[4].type = "assistant_text"
        /\ IsEngineError(Events(i)[5])
        /\ IsIdle(Events(i)[6])

\* C28: a session made by resume_session emits what one made by
\* start_session emits: `started`, `processing`, the events it relays and,
\* when the engine completes or fails, one `idle` after all of them.
C28_ResumeLikeStart ==
    \A i \in Created : inst[i].sessionId = "s2" =>
        OneRun(i, <<StatusEv("s2", "started", i),
                    StatusEv("s2", "processing", i)>>)

\* What the engine is to be told for response msg to a request whose
\* original payload is orig.
Decision(msg, orig, i) ==
    IF msg.type = "question_response"
    THEN ResolveEff("s1", msg.requestId, "allow", "",
                    [q |-> orig.q, answers |-> msg.answers], i)
    ELSE IF msg.behavior = "allow"
    THEN ResolveEff("s1", msg.requestId, "allow", "",
                    IF msg.updatedInput = NoPayload THEN orig ELSE msg.updatedInput, i)
    ELSE ResolveEff("s1", msg.requestId, "deny",
                    IF msg.message = Undefined THEN "Denied by user" ELSE msg.message,
                    NoPayload, i)

\* C29: the engine is told, for a pending request: allow with the updated
\* payload, or with the original one when none comes with the response;
\* deny with the reason given, or "Denied by user" when none is; for a
\* question_response, allow with the original payload and the answers
\* merged into it; and deny with "Session closed" when the session closes.
C29_DeliveredDecision ==
    sessions["s1"] # NoInst =>
        LET i == sessions["s1"]
            pending == inst[i].pendingRequests
        IN  /\ \A msg \in Responses("s1") :
                  msg.requestId \in DOMAIN pending =>
                      HandleMessage(Heap, "c1", msg).trace[i]
                        = Append(trace[i], Decision(msg, pending[msg.requestId], i))
            /\ HandleMessage(Heap, "c1", Bare("close_session", "s1")).trace[i]
                 = trace[i] \o Denials(i, DOMAIN pending)
                            \o <<StatusEv("s1", "closed", i)>>

\* The engine was told allow with the original payload for one request and
\* allow with the payload and the answers for another.
C29_AllowedBothWays ==
    \E i \in Created : \E j, k \in 1..Len(trace[i]) :
        /\ IsResolve(trace[i][j]) /\ trace[i][j].payload = OrigInput
        /\ IsResolve(trace[i][k])
        /\ trace[i][k].payload = [q |-> OrigInput.q, answers |-> "a1"]

IsAsk(e) == e.type \in {"permission_request", "question"}

\* The request ids session i has put on its events, in the order it did.
AskedIds(i) ==
    LET asks == SelectSeq(trace[i], IsAsk)
    IN  [k \in 1..Len(asks) |-> asks[k].requestId]

\* C30: the request ids of a session are 1, 2, 3, ... in the order of its
\* decision callbacks, whatever was resolved, ended or closed in between;
\* and a decision callback, whenever it comes, takes the next id, stores one
\* pending entry under it, and emits one event with it: `question` for
\* AskUserQuestion, `permission_request` for any other tool.
C30_FreshRequestId ==
    /\ \A i \in Created : AskedIds(i) = [k \in 1..inst[i].requestCounter |-> k]
    /\ \A q \in Queries : \A tool \in {"Bash", "AskUserQuestion"} :
          query[q].owner # NoInst =>
              LET i == query[q].owner
                  rid == inst[i].requestCounter + 1
                  h == HandleCanUseTool(Heap, q, tool, OrigInput, "some")
                  last == h.trace[i][Len(h.trace[i])]
              IN  /\ rid \notin DOMAIN inst[i].pendingRequests
                  /\ h.inst[i].pendingRequests
                       = MapSet(inst[i].pendingRequests, rid, OrigInput)
                  /\ Len(h.trace[i]) = Len(trace[i]) + 1
                  /\ last.requestId = rid
                  /\ last.sessionId = inst[i].sessionId
                  /\ last.type = IF tool = "AskUserQuestion" THEN "question"
                                 ELSE "permission_request"
                  /\ \A j \in Insts \ {i} : h.trace[j] = trace[j] /\ h.inst[j] = inst[j]

\* A session asked, was answered, went idle, was prompted again and asked
\* again while an earlier request had long been resolved.
C30_AskedAcrossInvocations ==
    \E i \in Created : \E j, k, l \in 1..Len(trace[i]) :
        /\ j < k /\ k < l
        /\ IsResolve(trace[i][j])
        /\ IsIdle(trace[i][k])
        /\ IsAsk(trace[i][l])
        /\ trace[i][l].requestId > trace[i][j].requestId

\* Request rid of session i leaves the pending table, or the engine's wait
\* for it ends, in this step.
Released(i, rid) ==
    \/ rid \in DOMAIN inst[i].pendingRequests
         /\ rid \notin DOMAIN inst'[i].pendingRequests
    \/ \E q \in Queries :
          /\ query[q].owner = i
          /\ rid \in query[q].awaiting
          /\ rid \notin query'[q].awaiting

\* Session i handles a response for request rid in this step.
AnswerStep(i, rid) ==
    /\ Len(trace'[i]) = Len(trace[i]) + 1
    /\ IsResolve(trace'[i][Len(trace'[i])])
    /\ trace'[i][Len(trace'[i])].requestId = rid
    /\ trace'[i][Len(trace'[i])].text # "Session closed"
    /\ rid \in DOMAIN inst[i].pendingRequests

C32_ChunkingIndependent ==
    \A c \in Conns : framer[c].out = OnData(NewFramer, framer[c].fed).out

\* The rest of C32: the buffer never holds a delimiter, it is what follows
\* the last delimiter of the text decoded so far, and a chunk without a
\* delimiter emits nothing.
C32_TailIsHeld ==
    /\ \A c \in Conns : IndexOfNewline(framer[c].buffer) = 0
    /\ [][\A c \in Conns :
             (framer'[c].fed # framer[c].fed
                /\ \A k \in (Len(framer[c].fed) + 1)..Len(framer'[c].fed) :
                      framer'[c].fed[k] # "\n")
             => framer'[c].out = framer[c].out]_vars

\* C32 for streams without a multi-byte character.
C32_SingleByteOnly ==
    \A c \in Conns :
        (\A k \in 1..Len(framer[c].fed) : framer[c].fed[k] \notin {"C2", "A0"})
        => /\ framer[c].out = OnData(NewFramer, framer[c].fed).out
           /\ framer[c].buffer = OnData(NewFramer, framer[c].fed).buffer

\* C33: a session with no invocation in flight has an empty pending table.
C33_IdleHasNothingPending ==
    \A i \in Created :
        Running(i) = {} /\ inst[i].activeQuery = NoQuery
        => inst[i].pendingRequests = EmptyMap

\* C34: while a session that was not closed has an invocation running, its
\* activeQuery is set and is an invocation of the session that is running,
\* so that an interrupt reaches it.
C34_HandleIsRunning ==
    \A i \in Created :
        Running(i) # {} /\ SelectSeq(trace[i], IsClosed) = <<>> =>
            /\ inst[i].activeQuery \in Running(i)
            /\ Interrupt(Heap, i).query[inst[i].activeQuery].interrupted

\* C35: on a connection, nothing that an earlier session of an id emitted
\* follows the `started` of a later session of the same id.
C35_NothingOfTheOld ==
    \A c \in Conns : \A j, k \in 1..Len(wire[c]) :
        (/\ j < k
         /\ wire[c][j].type = "session_status"
         /\ wire[c][j].status = "started"
         /\ wire[c][k].sessionId = wire[c][j].sessionId
         /\ wire[c][k].src \in Created)
        => wire[c][k].src >= wire[c][j].src

\* C36: once stop() has begun, no step constructs a Session or adds an entry
\* to the registry.
C36_NoSessionAfterStop ==
    [][server # "listening" =>
          /\ nInst' = nInst
          /\ \A s \in SessionIds : sessions'[s] # NoInst => sessions[s] # NoInst]_vars

\* C37: once stop() has begun it completes, the listener closed, whatever
\* is in flight or pending and with no front-end ever answering.
C37_StopCompletes == (server = "stopping") ~> (server = "closed")

\* stop() has completed for a session whose invocation was in flight and
\* whose request was pending and never answered.
C37_StoppedWhilePending ==
    /\ server = "closed"
    /\ \E i \in Created :
          /\ \E q \in Queries : query[q].owner = i /\ query[q].st = "closed"
          /\ \E k \in 1..Len(trace[i]) :
                IsResolve(trace[i][k]) /\ trace[i][k].text = "Session closed"

\* The transport of c emits in this step, and only malformed-input signals.
OnlySignals(c) ==
    /\ Len(framer'[c].out) > Len(framer[c].out)
    /\ \A k \in (Len(framer[c].out) + 1)..Len(framer'[c].out) :
          framer'[c].out[k] = ErrorEvent

C39_SinkAnswerNotLost ==
    mode = "cli" =>
        \A k \in 1..Len(trace[CliInst]) :
            (/\ IsAsk(trace[CliInst][k])
             /\ \A p \in prompts : p.rid # trace[CliInst][k].requestId)
            => \E l \in 1..Len(trace[CliInst]) :
                  /\ IsResolve(trace[CliInst][l])
                  /\ trace[CliInst][l].requestId = trace[CliInst][k].requestId

=============================================================================
